---- MODULE Spec2Model ----
(***************************************************************************)
(* Frame combination (calibration/mod.rs), statistics and pixel-wise       *)
(* arithmetic (image/mod.rs) of eventide.                                  *)
(*                                                                         *)
(* Samples are f32.  They are modelled as binary floating-point numbers    *)
(* with IEEE-754 semantics (round to nearest, ties to even; signed zeros,  *)
(* subnormals, infinities, NaN) and the exponent range of f32; only the    *)
(* significand is narrowed, to Precision bits, so that products fit the    *)
(* model checker's integers.                                               *)
(***************************************************************************)
EXTENDS Integers, Sequences, FiniteSets, TLC

\* ------------------------------------------------------------------ bounds
\* significand width of the modelled f32 (24 in the program)
Precision == 8
\* longest list of input images
MaxImages == 4
\* largest `iterations` argument of sigma_clipping
MaxIter == 2
\* longest chain of arithmetic calls on one receiver
MaxOps == 2
\* most image files a scanned directory holds
MaxFiles == 2
\* how many of the five frame types the GUI model follows
MaxTypes == 2
\* most textures the egui Context loads
MaxTextures == 2

\* ------------------------------------------------------------- f32 format
\* largest exponent of a finite f32 (f32::MAX < 2^(EMax+1))
EMax == 127
\* exponent of the smallest normal f32 (f32::MIN_POSITIVE = 2^EMin)
EMin == -126
\* exponent of the least significant bit of a subnormal
ESub == EMin - (Precision - 1)

RECURSIVE BitLen(_)
BitLen(n) == IF n = 0 THEN 0 ELSE 1 + BitLen(n \div 2)

NaN == [k |-> "nan", s |-> 0, m |-> 0, e |-> 0]
Inf(s) == [k |-> "inf", s |-> s, m |-> 0, e |-> 0]
Zero(s) == [k |-> "fin", s |-> s, m |-> 0, e |-> ESub]

IsNaN(a) == a.k = "nan"
IsInf(a) == a.k = "inf"
IsFin(a) == a.k = "fin"
IsZero(a) == a.k = "fin" /\ a.m = 0

\* The f32 nearest to (-1)^s * v * 2^E, where v = M when ~sticky and
\* M < v < M+1 when sticky (round to nearest, ties to even).
RoundFin(s, M, E, sticky) ==
    LET bits == BitLen(M)
        raw  == E + bits - Precision
        e1   == IF raw < ESub THEN ESub ELSE raw
        k    == e1 - E
    IN  IF M = 0 /\ ~sticky THEN Zero(s)
        ELSE IF k <= 0 THEN
            \* exactly representable: shift left
            IF e1 + Precision - 1 > EMax THEN Inf(s)
            ELSE [k |-> "fin", s |-> s, m |-> M * (2 ^ (0 - k)), e |-> e1]
        ELSE IF k > bits + 1 THEN Zero(s)
        ELSE
            LET q    == M \div (2 ^ k)
                r    == M % (2 ^ k)
                half == 2 ^ (k - 1)
                up   == \/ r > half
                        \/ r = half /\ sticky
                        \/ r = half /\ ~sticky /\ q % 2 = 1
                m1   == IF up THEN q + 1 ELSE q
                m2   == IF m1 = 2 ^ Precision THEN 2 ^ (Precision - 1) ELSE m1
                e2   == IF m1 = 2 ^ Precision THEN e1 + 1 ELSE e1
            IN  IF m2 = 0 THEN Zero(s)
                ELSE IF e2 + Precision - 1 > EMax THEN Inf(s)
                ELSE [k |-> "fin", s |-> s, m |-> m2, e |-> e2]

\* an integer as f32 (`n as f32`)
FromInt(n) == IF n < 0 THEN RoundFin(1, 0 - n, 0, FALSE) ELSE RoundFin(0, n, 0, FALSE)
\* the literal n * 2^E
Lit(n, E) == IF n < 0 THEN RoundFin(1, 0 - n, E, FALSE) ELSE RoundFin(0, n, E, FALSE)

\* significand and exponent with the significand shifted to Precision bits
NormM(a) == a.m * (2 ^ (Precision - BitLen(a.m)))
NormE(a) == a.e - (Precision - BitLen(a.m))

FNeg(a) == IF IsNaN(a) THEN a ELSE [a EXCEPT !.s = 1 - a.s]
FAbs(a) == IF IsNaN(a) THEN a ELSE [a EXCEPT !.s = 0]

\* |a| < |b| for a, b not NaN
MagLt(a, b) ==
    IF IsInf(a) THEN FALSE
    ELSE IF IsInf(b) THEN TRUE
    ELSE a.e < b.e \/ (a.e = b.e /\ a.m < b.m)

\* a < b, a <= b, a = b of f32 (all false when an operand is NaN; -0.0 = 0.0)
FLt(a, b) ==
    /\ ~IsNaN(a) /\ ~IsNaN(b)
    /\ ~(IsZero(a) /\ IsZero(b))
    /\ IF a.s # b.s THEN a.s = 1
       ELSE IF a.s = 0 THEN MagLt(a, b) ELSE MagLt(b, a)
FEq(a, b) ==
    /\ ~IsNaN(a) /\ ~IsNaN(b)
    /\ \/ IsZero(a) /\ IsZero(b)
       \/ a = b
FLe(a, b) == FLt(a, b) \/ FEq(a, b)
FGe(a, b) == FLe(b, a)
FGt(a, b) == FLt(b, a)

FAdd(a, b) ==
    IF IsNaN(a) \/ IsNaN(b) THEN NaN
    ELSE IF IsInf(a) THEN (IF IsInf(b) /\ a.s # b.s THEN NaN ELSE a)
    ELSE IF IsInf(b) THEN b
    ELSE IF IsZero(a) /\ IsZero(b) THEN (IF a.s = 1 /\ b.s = 1 THEN Zero(1) ELSE Zero(0))
    ELSE IF IsZero(a) THEN b
    ELSE IF IsZero(b) THEN a
    ELSE
        LET hi == IF a.e >= b.e THEN a ELSE b
            lo == IF a.e >= b.e THEN b ELSE a
            d  == hi.e - lo.e
        IN  IF d > Precision + 2 THEN hi
            ELSE
                LET vh == (IF hi.s = 1 THEN 0 - hi.m ELSE hi.m) * (2 ^ d)
                    vl == IF lo.s = 1 THEN 0 - lo.m ELSE lo.m
                    v  == vh + vl
                IN  IF v = 0 THEN Zero(0)
                    ELSE IF v < 0 THEN RoundFin(1, 0 - v, lo.e, FALSE)
                    ELSE RoundFin(0, v, lo.e, FALSE)

FSub(a, b) == FAdd(a, FNeg(b))

FMul(a, b) ==
    LET s == (a.s + b.s) % 2
    IN  IF IsNaN(a) \/ IsNaN(b) THEN NaN
        ELSE IF IsInf(a) \/ IsInf(b) THEN
            (IF IsZero(a) \/ IsZero(b) THEN NaN ELSE Inf(s))
        ELSE IF IsZero(a) \/ IsZero(b) THEN Zero(s)
        ELSE RoundFin(s, a.m * b.m, a.e + b.e, FALSE)

FDiv(a, b) ==
    LET s == (a.s + b.s) % 2
    IN  IF IsNaN(a) \/ IsNaN(b) THEN NaN
        ELSE IF IsInf(a) THEN (IF IsInf(b) THEN NaN ELSE Inf(s))
        ELSE IF IsInf(b) THEN Zero(s)
        ELSE IF IsZero(b) THEN (IF IsZero(a) THEN NaN ELSE Inf(s))
        ELSE IF IsZero(a) THEN Zero(s)
        ELSE
            LET num == NormM(a) * (2 ^ (Precision + 2))
                den == NormM(b)
            IN  RoundFin(s, num \div den, NormE(a) - NormE(b) - (Precision + 2),
                         num % den # 0)

\* floor of the square root of n, found bit by bit from bit b down
RECURSIVE ISqrtFrom(_, _, _)
ISqrtFrom(n, r, b) ==
    IF b < 0 THEN r
    ELSE IF (r + 2 ^ b) * (r + 2 ^ b) <= n THEN ISqrtFrom(n, r + 2 ^ b, b - 1)
    ELSE ISqrtFrom(n, r, b - 1)
ISqrt(n) == ISqrtFrom(n, 0, Precision + 2)

FSqrt(a) ==
    IF IsNaN(a) THEN NaN
    ELSE IF IsZero(a) THEN a
    ELSE IF a.s = 1 THEN NaN
    ELSE IF IsInf(a) THEN a
    ELSE
        LET sh == IF (NormE(a) - (Precision + 3)) % 2 = 0
                  THEN Precision + 3 ELSE Precision + 4
            M  == NormM(a) * (2 ^ sh)
            r  == ISqrt(M)
        IN  RoundFin(0, r, (NormE(a) - sh) \div 2, r * r # M)


\* ------------------------------------------------------- image/mod.rs model
\* `iter.sum::<f32>()`: a left fold of + from 0.0
RECURSIVE SumFrom(_, _, _)
SumFrom(acc, values, i) ==
    IF i > Len(values) THEN acc ELSE SumFrom(FAdd(acc, values[i]), values, i + 1)
FSum(values) == SumFrom(Zero(0), values, 1)

\* `values.sort_by(|a, b| a.partial_cmp(b).unwrap_or(Equal))`: a stable sort
RECURSIVE InsertSorted(_, _)
InsertSorted(sorted, v) ==
    IF sorted = << >> THEN <<v>>
    ELSE IF FLt(v, sorted[Len(sorted)])
         THEN Append(InsertSorted(SubSeq(sorted, 1, Len(sorted) - 1), v), sorted[Len(sorted)])
         ELSE Append(sorted, v)
RECURSIVE SortFrom(_, _, _)
SortFrom(sorted, values, i) ==
    IF i > Len(values) THEN sorted
    ELSE SortFrom(InsertSorted(sorted, values[i]), values, i + 1)

\* (mutation) the values are left in list order
Sort_keeps_order(values) == values

Sort(values) == SortFrom(<< >>, values, 1)

PixelTypes == {"U8", "U16", "I16", "I32", "F32", "F64"}
FrameTypes == {"Light", "Dark", "Flat", "Bias", "DarkFlat"}

\* ImageMetadata::default() with the given dimensions
DefaultMetadata(width, height) ==
    [dimensions |-> <<width, height>>, pixel_type |-> "U16",
     exposure_time |-> "None", temperature |-> "None", iso_gain |-> "None",
     filter |-> "None", file_path |-> "None", extra |-> {}]

\* the coordinates [y, x] of a height x width array
Coords(width, height) == (0 .. height - 1) \X (0 .. width - 1)

\* FitsImage::new(width, height)
FitsImage_new(width, height) ==
    [metadata   |-> DefaultMetadata(width, height),
     data       |-> [c \in Coords(width, height) |-> Zero(0)],
     frame_type |-> "Light"]

\* FitsImage::dimensions
dimensions(img) == img.metadata.dimensions

NoImage == [none |-> TRUE]

\* f32::MAX and f32::MIN
F32_MAX == [k |-> "fin", s |-> 0, m |-> 2 ^ Precision - 1, e |-> EMax - Precision + 1]
F32_MIN == [k |-> "fin", s |-> 1, m |-> 2 ^ Precision - 1, e |-> EMax - Precision + 1]

\* the position of [y, x] in `data.iter()` (row-major order)
Rank(data, c) ==
    1 + Cardinality({d \in DOMAIN data : d[1] < c[1] \/ (d[1] = c[1] /\ d[2] < c[2])})

\* `self.data.iter()` as a sequence
Flatten(data) ==
    [k \in 1 .. Cardinality(DOMAIN data) |-> data[CHOOSE c \in DOMAIN data : Rank(data, c) = k]]

RECURSIVE MinFrom(_, _, _)
MinFrom(min, values, i) ==
    IF i > Len(values) THEN min
    ELSE MinFrom(IF FLt(values[i], min) THEN values[i] ELSE min, values, i + 1)

RECURSIVE MaxFrom(_, _, _)
MaxFrom(max, values, i) ==
    IF i > Len(values) THEN max
    ELSE MaxFrom(IF FGt(values[i], max) THEN values[i] ELSE max, values, i + 1)

\* (mutation) the sample standard deviation (denominator count - 1)
StdDevOf_sample(values, mean) ==
    FSqrt(FDiv(FSum([i \in 1 .. Len(values) |->
                       FMul(FSub(values[i], mean), FSub(values[i], mean))]),
               FromInt(Len(values) - 1)))

\* lines 380-386: the second pass
StdDevOf(values, mean) ==
    FSqrt(FDiv(FSum([i \in 1 .. Len(values) |->
                       FMul(FSub(values[i], mean), FSub(values[i], mean))]),
               FromInt(Len(values))))

\* lines 388-399
MedianOf(values) ==
    LET sorted == Sort(values)
        mid    == Len(sorted) \div 2
    IN  IF sorted = << >> THEN Zero(0)
        ELSE IF Len(sorted) % 2 = 0
        THEN FDiv(FAdd(sorted[mid], sorted[mid + 1]), FromInt(2))
        ELSE sorted[mid + 1]

\* FitsImage::calculate_statistics
calculate_statistics(self) ==
    LET values == Flatten(self.data)
        mean   == FDiv(FSum(values), FromInt(Len(values)))
    IN  [min     |-> MinFrom(F32_MAX, values, 1),
         max     |-> MaxFrom(F32_MIN, values, 1),
         mean    |-> mean,
         median  |-> MedianOf(values),
         std_dev |-> StdDevOf(values, mean)]

\* the literal 1e-10 as f32 (0x2EDBE6FF = 14411519 * 2^-57)
ZERO_GUARD == Lit(14411519, -57)

\* (mutation) only the number of samples is compared
SameDimensions_area(self, other) ==
    dimensions(self)[1] * dimensions(self)[2] = dimensions(other)[1] * dimensions(other)[2]

\* `self.dimensions() != other.dimensions()`, negated
SameDimensions(self, other) == dimensions(self) = dimensions(other)

\* `for y in 0..height { for x in 0..width { self.data[[y, x]] ... } }` runs
\* over the metadata's dimensions in row-major order and panics at the first
\* index outside either array: OutOfBounds are those indices, Written the
\* coordinates assigned before the first of them
OutOfBounds(self, other) ==
    {c \in Coords(dimensions(self)[1], dimensions(self)[2]) :
        c \notin DOMAIN self.data \/ c \notin DOMAIN other.data}
\* (mutation) the inner loop starts at column 1: `for x in 1..width`
Written_from_one(self, other) ==
    {c \in Coords(dimensions(self)[1], dimensions(self)[2]) :
        /\ c[2] >= 1
        /\ \A b \in OutOfBounds(self, other) :
              c[1] * dimensions(self)[1] + c[2] < b[1] * dimensions(self)[1] + b[2]}
Written(self, other) ==
    {c \in Coords(dimensions(self)[1], dimensions(self)[2]) :
        \A b \in OutOfBounds(self, other) :
            c[1] * dimensions(self)[1] + c[2] < b[1] * dimensions(self)[1] + b[2]}

\* (mutation) the receiver is also marked as holding 32-bit floats
Loop_marks_f32(self, other, new) ==
    [ok    |-> OutOfBounds(self, other) = {},
     err   |-> IF OutOfBounds(self, other) = {} THEN "none" ELSE "panic",
     msg   |-> IF OutOfBounds(self, other) = {} THEN "" ELSE "index out of bounds",
     image |-> [self EXCEPT !.metadata.pixel_type = "F32",
                            !.data = [c \in DOMAIN self.data |->
                                        IF c \in DOMAIN new THEN new[c] ELSE self.data[c]]]]

\* the loop's outcome, `new` giving the sample assigned at each written coordinate
Loop(self, other, new) ==
    [ok    |-> OutOfBounds(self, other) = {},
     err   |-> IF OutOfBounds(self, other) = {} THEN "none" ELSE "panic",
     msg   |-> IF OutOfBounds(self, other) = {} THEN "" ELSE "index out of bounds",
     image |-> [self EXCEPT !.data =
                  [c \in DOMAIN self.data |->
                      IF c \in DOMAIN new THEN new[c] ELSE self.data[c]]]]

\* (mutation) the failing call clears the receiver's dimensions
DimensionError_clears_dimensions(self, what) ==
    [ok |-> FALSE, err |-> "DimensionError",
     msg |-> "Images must have the same dimensions for " \o what,
     image |-> [self EXCEPT !.metadata.dimensions = <<0, 0>>]]

\* `return Err(ImageError::DimensionError(...))`, the receiver untouched
DimensionError(self, what) ==
    [ok |-> FALSE, err |-> "DimensionError",
     msg |-> "Images must have the same dimensions for " \o what, image |-> self]

add(self, other) ==
    IF ~SameDimensions(self, other) THEN DimensionError(self, "addition")
    ELSE Loop(self, other,
              [c \in Written(self, other) |-> FAdd(self.data[c], other.data[c])])

subtract(self, other) ==
    IF ~SameDimensions(self, other) THEN DimensionError(self, "subtraction")
    ELSE Loop(self, other,
              [c \in Written(self, other) |-> FSub(self.data[c], other.data[c])])

multiply(self, other) ==
    IF ~SameDimensions(self, other) THEN DimensionError(self, "multiplication")
    ELSE Loop(self, other,
              [c \in Written(self, other) |-> FMul(self.data[c], other.data[c])])

\* (mutation) the guard also catches a divisor of exactly 1e-10
DividePixel_inclusive(a, divisor) ==
    IF FLe(FAbs(divisor), ZERO_GUARD) THEN Zero(0) ELSE FDiv(a, divisor)

\* lines 479-484
DividePixel(a, divisor) ==
    IF FLt(FAbs(divisor), ZERO_GUARD) THEN Zero(0) ELSE FDiv(a, divisor)

divide(self, other) ==
    IF ~SameDimensions(self, other) THEN DimensionError(self, "division")
    ELSE Loop(self, other,
              [c \in Written(self, other) |-> DividePixel(self.data[c], other.data[c])])

\* (mutation) the factor is added: `+=` for `*=`
scale_adds(self, factor) ==
    Loop(self, self, [c \in Written(self, self) |-> FAdd(self.data[c], factor)])

\* FitsImage::scale
scale(self, factor) ==
    Loop(self, self, [c \in Written(self, self) |-> FMul(self.data[c], factor)])

\* ------------------------------------------------- calibration/mod.rs model
\* the samples of all images at [y, x], in list order
SamplesAt(images, c) == [i \in 1 .. Len(images) |-> images[i].data[c]]

\* (mutation) only the widths are compared
DimensionsMatch_width_only(images) ==
    \A i \in 2 .. Len(images) : dimensions(images[i])[1] = dimensions(images[1])[1]

\* `for img in images.iter().skip(1) { if img.dimensions() != (width, height) ...`
DimensionsMatch(images) ==
    \A i \in 2 .. Len(images) : dimensions(images[i]) = dimensions(images[1])

\* (mutation) the frame type is not copied: the result stays a Light frame
Template_keeps_light(first) ==
    [FitsImage_new(dimensions(first)[1], dimensions(first)[2])
        EXCEPT !.metadata = first.metadata]

\* the result image before its pixels are filled: new + metadata + frame_type
Template(first) ==
    [FitsImage_new(dimensions(first)[1], dimensions(first)[2])
        EXCEPT !.metadata = first.metadata, !.frame_type = first.frame_type]

\* `return Err(ImageError::...)` of a combiner: nothing was allocated
Failure(kind, msg) ==
    [ok |-> FALSE, err |-> kind, msg |-> msg, image |-> NoImage, allocs |-> 0]

\* (mutation) nothing is allocated: the samples are written into the first
\* input's buffer, which the result then shares
Success_first_buffer(result, pixels) ==
    [ok |-> TRUE, err |-> "none", msg |-> "",
     image |-> [result EXCEPT !.data = pixels], allocs |-> 0, buffer |-> 1]

\* `Ok(result)`: the one image allocated by FitsImage::new, with its samples.
\* buffer tells where the samples live: 0 is the array allocated in this call,
\* i > 0 would be the array owned by the i-th input
Success(result, pixels) ==
    [ok |-> TRUE, err |-> "none", msg |-> "",
     image |-> [result EXCEPT !.data = pixels], allocs |-> 1, buffer |-> 0]

\* (mutation) the divisor is one too small
AveragePixel_off_by_one(values) == FDiv(FSum(values), FromInt(Len(values) - 1))

\* average, lines 44-45
AveragePixel(values) == FDiv(FSum(values), FromInt(Len(values)))

\* (mutation) an empty list yields an empty image instead of an error
average_empty_ok(images) ==
    IF images = << >> THEN Success(FitsImage_new(0, 0), << >>)
    ELSE IF ~DimensionsMatch(images) THEN
        Failure("DimensionError", "All images must have the same dimensions for averaging")
    ELSE Success(Template(images[1]),
                 [c \in DOMAIN Template(images[1]).data |->
                     AveragePixel(SamplesAt(images, c))])

average(images) ==
    IF images = << >> THEN Failure("FormatError", "No images provided for averaging")
    ELSE IF ~DimensionsMatch(images) THEN
        Failure("DimensionError", "All images must have the same dimensions for averaging")
    ELSE Success(Template(images[1]),
                 [c \in DOMAIN Template(images[1]).data |->
                     AveragePixel(SamplesAt(images, c))])

\* (mutation) the upper middle value is taken for even counts too
MedianPixel_upper_middle(values) == Sort(values)[Len(values) \div 2 + 1]

\* median, lines 95-104
MedianPixel(values) ==
    LET sorted == Sort(values)
        mid    == Len(sorted) \div 2
    IN  IF Len(sorted) % 2 = 0
        THEN FDiv(FAdd(sorted[mid], sorted[mid + 1]), FromInt(2))
        ELSE sorted[mid + 1]

median(images) ==
    IF images = << >> THEN Failure("FormatError", "No images provided for median")
    ELSE IF ~DimensionsMatch(images) THEN
        Failure("DimensionError", "All images must have the same dimensions for median")
    ELSE Success(Template(images[1]),
                 [c \in DOMAIN Template(images[1]).data |->
                     MedianPixel(SamplesAt(images, c))])

\* (mutation) samples outside the bounds are moved onto them, not removed
Retain_clamps(values, lower_bound, upper_bound) ==
    [i \in DOMAIN values |->
        IF FLt(values[i], lower_bound) THEN lower_bound
        ELSE IF FGt(values[i], upper_bound) THEN upper_bound
        ELSE values[i]]

\* (mutation) samples on the bounds are rejected too
Retain_strict(values, lower_bound, upper_bound) ==
    SelectSeq(values, LAMBDA v : FGt(v, lower_bound) /\ FLt(v, upper_bound))

\* `values.retain(|&v| v >= lower_bound && v <= upper_bound)`
Retain(values, lower_bound, upper_bound) ==
    SelectSeq(values, LAMBDA v : FGe(v, lower_bound) /\ FLe(v, upper_bound))

\* (mutation) the sample standard deviation (denominator count - 1) is used
ClipOnce_sample_std_dev(values, sigma) ==
    LET n        == FromInt(Len(values))
        mean     == FDiv(FSum(values), n)
        variance == FDiv(FSum([i \in 1 .. Len(values) |->
                                 FMul(FSub(values[i], mean), FSub(values[i], mean))]),
                         FromInt(Len(values) - 1))
        std_dev  == FSqrt(variance)
    IN  Retain(values, FSub(mean, FMul(sigma, std_dev)), FAdd(mean, FMul(sigma, std_dev)))

\* one pass of the rejection loop body, lines 159-169
ClipOnce(values, sigma) ==
    LET n        == FromInt(Len(values))
        mean     == FDiv(FSum(values), n)
        variance == FDiv(FSum([i \in 1 .. Len(values) |->
                                 FMul(FSub(values[i], mean), FSub(values[i], mean))]), n)
        std_dev  == FSqrt(variance)
    IN  Retain(values, FSub(mean, FMul(sigma, std_dev)), FAdd(mean, FMul(sigma, std_dev)))

\* (mutation) the loop stops only when at most one sample is left
RECURSIVE ClipLoop_until_one(_, _, _)
ClipLoop_until_one(values, sigma, iterations) ==
    IF iterations = 0 \/ Len(values) <= 1 THEN values
    ELSE ClipLoop_until_one(ClipOnce(values, sigma), sigma, iterations - 1)

\* `for _ in 0..iterations { if values.len() <= 2 { break; } ... }`
RECURSIVE ClipLoop(_, _, _)
ClipLoop(values, sigma, iterations) ==
    IF iterations = 0 \/ Len(values) <= 2 THEN values
    ELSE ClipLoop(ClipOnce(values, sigma), sigma, iterations - 1)

\* (mutation) no fallback for an empty set
MeanOfRemaining_no_fallback(values) == FDiv(FSum(values), FromInt(Len(values)))

\* lines 172-177
MeanOfRemaining(values) ==
    IF values = << >> THEN Zero(0) ELSE FDiv(FSum(values), FromInt(Len(values)))

\* (mutation) the loop body runs once before the iteration count is tested
SigmaPixel_do_while(values, sigma, iterations) ==
    MeanOfRemaining(ClipLoop(values, sigma, iterations + 1))

SigmaPixel(values, sigma, iterations) == MeanOfRemaining(ClipLoop(values, sigma, iterations))

sigma_clipping(images, sigma, iterations) ==
    IF images = << >> THEN Failure("FormatError", "No images provided for sigma clipping")
    ELSE IF ~DimensionsMatch(images) THEN
        Failure("DimensionError",
                "All images must have the same dimensions for sigma clipping")
    ELSE Success(Template(images[1]),
                 [c \in DOMAIN Template(images[1]).data |->
                     SigmaPixel(SamplesAt(images, c), sigma, iterations)])

\* ------------------------------------------------------------ input frames
\* metadata as a loader fills it (from_file), for two different files
LoadedMetadata(width, height, file) ==
    IF file = "a.fits"
    THEN [dimensions |-> <<width, height>>, pixel_type |-> "U16",
          exposure_time |-> "Some(30)", temperature |-> "Some(-10)",
          iso_gain |-> "Some(100)", filter |-> "Some(Ha)",
          file_path |-> "Some(a.fits)", extra |-> {<<"OBJECT", "M31">>}]
    ELSE [dimensions |-> <<width, height>>, pixel_type |-> "F32",
          exposure_time |-> "Some(120)", temperature |-> "None",
          iso_gain |-> "None", filter |-> "Some(OIII)",
          file_path |-> "Some(b.fits)", extra |-> {}]

\* a frame whose sample at [0, 0] is a and whose other samples are b
Frame(width, height, a, b, file, frame_type) ==
    [metadata   |-> LoadedMetadata(width, height, file),
     data       |-> [c \in Coords(width, height) |-> IF c = <<0, 0>> THEN a ELSE b],
     frame_type |-> frame_type]

\* 2x1 frames that differ in their samples only
DataFrames ==
    {Frame(2, 1, FromInt(a), FromInt(1), "a.fits", "Light") : a \in {0, 10, 20, 30}}
        \cup {Frame(2, 1, FromInt(11), FromInt(7), "a.fits", "Light")}

\* frames that differ in dimensions, metadata or frame type
ShapeFrames ==
    {Frame(d[1], d[2], FromInt(1), FromInt(1), "a.fits", "Light") :
        d \in {<<2, 1>>, <<1, 1>>, <<1, 2>>}}
        \cup {Frame(2, 1, FromInt(1), FromInt(1), "b.fits", "Dark")}

SeqsUpTo(S, n) == UNION {[1 .. k -> S] : k \in 0 .. n}

ImageLists == SeqsUpTo(DataFrames, MaxImages) \cup SeqsUpTo(ShapeFrames, MaxImages)

\* the sigma arguments tried: -1, 0, 1, 2
Sigmas == {FromInt(-1), Zero(0), FromInt(1), FromInt(2)}

\* the float just below a positive normal one
Pred(a) ==
    IF a.m > 2 ^ (Precision - 1) THEN [a EXCEPT !.m = a.m - 1]
    ELSE [a EXCEPT !.m = 2 ^ Precision - 1, !.e = a.e - 1]

\* a frame with the given samples, in row-major order
FrameOf(width, height, samples) ==
    [metadata   |-> LoadedMetadata(width, height, "a.fits"),
     data       |-> [c \in Coords(width, height) |-> samples[c[1] * width + c[2] + 1]],
     frame_type |-> "Light"]

\* receivers: 2x1 frames over 6, -3, 0
ReceiverFrames ==
    {FrameOf(2, 1, v) : v \in [1 .. 2 -> {FromInt(6), FromInt(-3), Zero(0)}]}

\* operands: 2x1 frames over 0, 2^-40, the float below 1e-10 (negated),
\* 1e-10, 2 and -4, and frames of other dimensions
OperandSamples ==
    {Zero(0), Lit(1, -40), FNeg(Pred(ZERO_GUARD)), ZERO_GUARD, FromInt(2), FromInt(-4)}
OperandFrames ==
    {FrameOf(2, 1, v) : v \in [1 .. 2 -> OperandSamples]}
        \cup {FrameOf(1, 2, <<FromInt(2), FromInt(2)>>),
              FrameOf(1, 1, <<FromInt(2)>>),
              FrameOf(2, 2, <<FromInt(2), FromInt(2), FromInt(2), FromInt(2)>>)}

\* the factors given to scale: 1, 0, -1/2
Factors == {FromInt(1), Zero(0), Lit(-1, -1)}

\* frames whose statistics are taken: up to four samples over 1, 2, 3, 4
StatDimensions == {<<0, 0>>, <<1, 1>>, <<2, 1>>, <<1, 3>>, <<2, 2>>, <<4, 1>>}
StatSamples == {FromInt(1), FromInt(2), FromInt(3), FromInt(4)}
StatFrames ==
    UNION {{FrameOf(d[1], d[2], v) : v \in [1 .. d[1] * d[2] -> StatSamples]} :
              d \in StatDimensions}

\* ------------------------------------------------------------ state machine
VARIABLES
    images,     \* the caller's list of input images
    call,       \* the combiner call made on it, if any
    result,     \* what that call returned
    receiver,   \* the image that arithmetic and statistics are invoked on
    operand,    \* the other image of the arithmetic calls
    arith,      \* the last arithmetic call, its return value and the receiver before it
    statistics, \* the ImageStatistics last computed from the receiver
    par,        \* a row-parallel run of average: its workers and the fill loop
    run,        \* a combiner, statistics or arithmetic invocation taken step by step
    app,        \* the EventideApp of the GUI, without its registration view
    view,       \* the RegistrationView the application owns
    textures    \* how many textures the egui Context has loaded

vars == <<images, call, result, receiver, operand, arith, statistics, par, run, app, view, textures>>

Idle == [op |-> "none"]

\* --- the frame combiner on a list of images
Init ==
    /\ images \in ImageLists
    /\ call = Idle
    /\ result = Idle
    /\ receiver = NoImage
    /\ operand = NoImage
    /\ arith = Idle
    /\ statistics = Idle
    /\ par = Idle
    /\ run = Idle
    /\ app = Idle
    /\ view = Idle
    /\ textures = Idle

CallAverage ==
    /\ call = Idle
    /\ call' = [op |-> "average"]
    /\ result' = average(images)
    /\ UNCHANGED <<images, receiver, operand, arith, statistics, par, run, app, view, textures>>

CallMedian ==
    /\ call = Idle
    /\ call' = [op |-> "median"]
    /\ result' = median(images)
    /\ UNCHANGED <<images, receiver, operand, arith, statistics, par, run, app, view, textures>>

CallSigmaClipping ==
    /\ call = Idle
    /\ \E sigma \in Sigmas, iterations \in 0 .. MaxIter :
        /\ call' = [op |-> "sigma_clipping", sigma |-> sigma, iterations |-> iterations]
        /\ result' = sigma_clipping(images, sigma, iterations)
    /\ UNCHANGED <<images, receiver, operand, arith, statistics, par, run, app, view, textures>>

Next == CallAverage \/ CallMedian \/ CallSigmaClipping

Spec == Init /\ [][Next]_vars

\* --- the arithmetic calls on a receiver, with one operand
InitArith ==
    /\ images = << >>
    /\ call = Idle
    /\ result = Idle
    /\ receiver \in ReceiverFrames
    /\ operand \in OperandFrames
    /\ arith = [op |-> "none", n |-> 0]
    /\ statistics = Idle
    /\ par = Idle
    /\ run = Idle
    /\ app = Idle
    /\ view = Idle
    /\ textures = Idle

\* the record of a call that returned r on the current receiver
Outcome(op, r) ==
    [op |-> op, n |-> arith.n + 1, ok |-> r.ok, err |-> r.err, old |-> receiver]

Add ==
    LET r == add(receiver, operand)
    IN  /\ arith.n < MaxOps
        /\ receiver' = r.image
        /\ arith' = Outcome("add", r)
        /\ UNCHANGED <<images, call, result, operand, statistics, par, run, app, view, textures>>

Subtract ==
    LET r == subtract(receiver, operand)
    IN  /\ arith.n < MaxOps
        /\ receiver' = r.image
        /\ arith' = Outcome("subtract", r)
        /\ UNCHANGED <<images, call, result, operand, statistics, par, run, app, view, textures>>

Multiply ==
    LET r == multiply(receiver, operand)
    IN  /\ arith.n < MaxOps
        /\ receiver' = r.image
        /\ arith' = Outcome("multiply", r)
        /\ UNCHANGED <<images, call, result, operand, statistics, par, run, app, view, textures>>

Divide ==
    LET r == divide(receiver, operand)
    IN  /\ arith.n < MaxOps
        /\ receiver' = r.image
        /\ arith' = Outcome("divide", r)
        /\ UNCHANGED <<images, call, result, operand, statistics, par, run, app, view, textures>>

Scale ==
    \E factor \in Factors :
        LET r == scale(receiver, factor)
        IN  /\ arith.n < MaxOps
            /\ receiver' = r.image
            /\ arith' = [factor |-> factor] @@ Outcome("scale", r)
            /\ UNCHANGED <<images, call, result, operand, statistics, par, run, app, view, textures>>

NextArith == Add \/ Subtract \/ Multiply \/ Divide \/ Scale

SpecArith == InitArith /\ [][NextArith]_vars

\* --- a combiner call, then in-place changes of the image it returned
\* the inputs: two frames of a.fits, a Dark frame of b.fits, a 1x1 frame
OutputFrames ==
    {Frame(2, 1, FromInt(10), FromInt(1), "a.fits", "Light"),
     Frame(2, 1, FromInt(11), FromInt(7), "b.fits", "Dark"),
     Frame(1, 1, FromInt(1), FromInt(1), "a.fits", "Light")}

InitOutput ==
    /\ images \in SeqsUpTo(OutputFrames, MaxImages - 1)
    /\ call = Idle
    /\ result = Idle
    /\ receiver = NoImage
    /\ operand = NoImage
    /\ arith = [op |-> "none", n |-> 0]
    /\ statistics = Idle
    /\ par = Idle
    /\ run = Idle
    /\ app = Idle
    /\ view = Idle
    /\ textures = Idle

\* scale called on the returned image: the loop writes the array that holds
\* its samples, and with it every image whose samples live in that array
ScaleOutput ==
    \E factor \in Factors :
        LET r == scale(result.image, factor)
        IN  /\ call # Idle /\ result.ok
            /\ arith.n < MaxOps
            /\ result' = [result EXCEPT !.image = r.image]
            /\ images' = [i \in DOMAIN images |->
                            IF result.buffer = i
                            THEN [images[i] EXCEPT !.data = r.image.data]
                            ELSE images[i]]
            /\ arith' = [op |-> "scale", n |-> arith.n + 1, ok |-> r.ok,
                         err |-> r.err, old |-> result.image]
            /\ UNCHANGED <<call, receiver, operand, statistics, par, run, app, view, textures>>

NextOutput == CallAverage \/ CallMedian \/ CallSigmaClipping \/ ScaleOutput

SpecOutput == InitOutput /\ [][NextOutput]_vars

\* --- a combiner call on copies of one image
\* the samples at [0, 0]: every significand at one exponent (8 to just under
\* 16), zeros of both signs, -3 and the largest finite f32
CopySamples ==
    {Lit(m, -4) : m \in 2 ^ (Precision - 1) .. 2 ^ Precision - 1}
        \cup {Zero(0), Zero(1), FromInt(-3), F32_MAX}
CopyFrames == {Frame(2, 1, a, FromInt(7), "a.fits", "Light") : a \in CopySamples}

InitCopies ==
    /\ images \in {[i \in 1 .. n |-> X] : n \in 1 .. MaxImages, X \in CopyFrames}
    /\ call = Idle
    /\ result = Idle
    /\ receiver = NoImage
    /\ operand = NoImage
    /\ arith = Idle
    /\ statistics = Idle
    /\ par = Idle
    /\ run = Idle
    /\ app = Idle
    /\ view = Idle
    /\ textures = Idle

SpecCopies == InitCopies /\ [][Next]_vars

\* --- a combiner call on three images that differ at [0, 0] only
\* (low, middle, high) at [0, 0], in sixteenths: 10 20 30, -8 -5 -2, 0 16 32,
\* 4 11 18, three neighbours of 10.875, and 2 either side of the power of two
\* at which the spacing of samples changes from 1/2 to 1
TripleSamples ==
    {<<Lit(n[1] - n[2], -4), Lit(n[1], -4), Lit(n[1] + n[2], -4)>> :
        n \in {<<320, 160>>, <<-80, 48>>, <<256, 256>>, <<176, 112>>, <<174, 1>>,
               <<2 ^ (Precision + 3), 32>>}}
\* the sample the three images share at [0, 1]: 1, 7 or 10.875
CommonSamples == {Lit(16, -4), Lit(112, -4), Lit(174, -4)}
\* the orders in which the three images are listed
TripleOrders == {<<1, 2, 3>>, <<3, 2, 1>>, <<2, 1, 3>>}
TripleLists ==
    {[i \in 1 .. 3 |-> Frame(2, 1, t[o[i]], c, "a.fits", "Light")] :
        t \in TripleSamples, c \in CommonSamples, o \in TripleOrders}

InitTriple ==
    /\ images \in TripleLists
    /\ call = Idle
    /\ result = Idle
    /\ receiver = NoImage
    /\ operand = NoImage
    /\ arith = Idle
    /\ statistics = Idle
    /\ par = Idle
    /\ run = Idle
    /\ app = Idle
    /\ view = Idle
    /\ textures = Idle

\* sigma_clipping asked for more iterations than three samples can use
CallSigmaClippingLong ==
    /\ call = Idle
    /\ \E sigma \in Sigmas, iterations \in 1 .. MaxIter + 3 :
        /\ call' = [op |-> "sigma_clipping", sigma |-> sigma, iterations |-> iterations]
        /\ result' = sigma_clipping(images, sigma, iterations)
    /\ UNCHANGED <<images, receiver, operand, arith, statistics, par, run, app, view, textures>>

NextTriple == CallAverage \/ CallMedian \/ CallSigmaClippingLong

SpecTriple == InitTriple /\ [][NextTriple]_vars

\* --- an image from its creation on: FitsImage::new or a combiner, then
\* arithmetic calls
LifeDimensions == {<<0, 0>>, <<2, 1>>, <<1, 2>>, <<3, 0>>, <<2, 2>>}

\* the combiner calls whose outputs are taken: lists of up to two frames
LifeLists == SeqsUpTo(DataFrames \cup ShapeFrames, MaxImages - 2)
LifeCalls ==
    UNION {{average(l), median(l), sigma_clipping(l, FromInt(1), 1)} : l \in LifeLists}

LifeReceivers ==
    {FitsImage_new(d[1], d[2]) : d \in LifeDimensions}
        \cup {r.image : r \in {c \in LifeCalls : c.ok}}

LifeOperands ==
    {FrameOf(2, 1, <<FromInt(2), FromInt(-4)>>),
     FrameOf(2, 1, <<Zero(0), FromInt(2)>>),
     FrameOf(1, 2, <<FromInt(2), FromInt(2)>>),
     FitsImage_new(0, 0)}

InitLife ==
    /\ images = << >>
    /\ call = Idle
    /\ result = Idle
    /\ receiver \in LifeReceivers
    /\ operand \in LifeOperands
    /\ arith = [op |-> "none", n |-> 0]
    /\ statistics = Idle
    /\ par = Idle
    /\ run = Idle
    /\ app = Idle
    /\ view = Idle
    /\ textures = Idle

SpecLife == InitLife /\ [][NextArith]_vars

\* --- average, row by row: one worker per row y of `(0..height).into_par_iter()`
\* the inputs: two 2x2 frames and a frame 2 wide and 3 high
ParFrames ==
    {FrameOf(2, 2, <<FromInt(1), FromInt(2), FromInt(3), FromInt(4)>>),
     FrameOf(2, 2, <<FromInt(10), FromInt(20), FromInt(30), FromInt(41)>>),
     FrameOf(2, 3, <<FromInt(5), FromInt(6), FromInt(7), FromInt(8), FromInt(9), FromInt(11)>>)}

InitPar ==
    /\ images \in SeqsUpTo(ParFrames, MaxImages - 2)
    /\ call = Idle
    /\ result = Idle
    /\ receiver = NoImage
    /\ operand = NoImage
    /\ arith = Idle
    /\ statistics = Idle
    /\ par = [pc |-> "start"]
    /\ run = Idle
    /\ app = Idle
    /\ view = Idle
    /\ textures = Idle

\* (mutation) the entry is filed under [x, y]
RowEntry_transposed(imgs, y, x) ==
    <<<<x, y>>, AveragePixel(SamplesAt(imgs, <<y, x>>))>>

\* lines 44-46: `row_results.push(((y, x), avg))`
RowEntry(imgs, y, x) ==
    <<<<y, x>>, AveragePixel(SamplesAt(imgs, <<y, x>>))>>

\* lines 5-40: the checks, the result image, and the rows handed to the pool
AverageStart ==
    /\ par.pc = "start"
    /\ call' = [op |-> "average"]
    /\ IF images = << >> \/ ~DimensionsMatch(images)
       THEN /\ result' = average(images)
            /\ par' = [pc |-> "done"]
       ELSE /\ result' = result
            /\ par' = [pc           |-> "rows",
                       result       |-> Template(images[1]),
                       row_results  |-> [y \in 0 .. dimensions(images[1])[2] - 1 |-> << >>],
                       returned     |-> {},
                       pixel_values |-> << >>,
                       writes       |-> [c \in DOMAIN Template(images[1]).data |-> 0]]
    /\ UNCHANGED <<images, receiver, operand, arith, statistics, run, app, view, textures>>

\* one turn of `for x in 0..width` in the worker of row y
AverageRowStep ==
    /\ par.pc = "rows"
    /\ \E y \in DOMAIN par.row_results :
        /\ y \notin par.returned
        /\ Len(par.row_results[y]) < dimensions(images[1])[1]
        /\ par' = [par EXCEPT !.row_results[y] =
                      Append(@, RowEntry(images, y, Len(par.row_results[y])))]
        /\ UNCHANGED <<images, call, result, receiver, operand, arith, statistics, run, app, view, textures>>

\* the worker of row y leaves its loop and returns row_results
AverageRowReturn ==
    /\ par.pc = "rows"
    /\ \E y \in DOMAIN par.row_results :
        /\ y \notin par.returned
        /\ Len(par.row_results[y]) = dimensions(images[1])[1]
        /\ par' = [par EXCEPT !.returned = @ \cup {y}]
        /\ UNCHANGED <<images, call, result, receiver, operand, arith, statistics, run, app, view, textures>>

\* the rows' results one after another, in row order
RECURSIVE Concat(_, _, _)
Concat(rows, y, height) ==
    IF y >= height THEN << >> ELSE rows[y] \o Concat(rows, y + 1, height)

\* `.collect()`: once every row has returned
AverageCollect ==
    /\ par.pc = "rows"
    /\ par.returned = DOMAIN par.row_results
    /\ par' = [par EXCEPT !.pc = "fill",
                          !.pixel_values = Concat(par.row_results, 0,
                                                  dimensions(images[1])[2])]
    /\ UNCHANGED <<images, call, result, receiver, operand, arith, statistics, run, app, view, textures>>

\* one turn of `for ((y, x), avg) in pixel_values { result_data[[y, x]] = avg; }`
AverageFillStep ==
    /\ par.pc = "fill"
    /\ par.pixel_values # << >>
    /\ LET entry == Head(par.pixel_values)
       IN  IF entry[1] \in DOMAIN par.result.data
           THEN par' = [par EXCEPT !.pixel_values = Tail(@),
                                   !.result.data[entry[1]] = entry[2],
                                   !.writes[entry[1]] = @ + 1]
           ELSE par' = [par EXCEPT !.pc = "panicked"]
    /\ UNCHANGED <<images, call, result, receiver, operand, arith, statistics, run, app, view, textures>>

\* `Ok(result)`
AverageReturn ==
    /\ par.pc = "fill"
    /\ par.pixel_values = << >>
    /\ result' = Success(par.result, par.result.data)
    /\ par' = [par EXCEPT !.pc = "done"]
    /\ UNCHANGED <<images, call, receiver, operand, arith, statistics, run, app, view, textures>>

NextPar ==
    \/ AverageStart
    \/ AverageRowStep
    \/ AverageRowReturn
    \/ AverageCollect
    \/ AverageFillStep
    \/ AverageReturn

SpecPar == InitPar /\ [][NextPar]_vars

\* --- one invocation taken step by step: a combiner, an arithmetic call or
\* the statistics, one coordinate (and one rejection round) at a time
RunA == Frame(2, 1, FromInt(10), FromInt(1), "a.fits", "Light")
RunB == Frame(2, 1, FromInt(30), FromInt(7), "b.fits", "Dark")
RunC == Frame(2, 1, FromInt(20), FromInt(1), "a.fits", "Light")
RunM == Frame(1, 1, FromInt(1), FromInt(1), "a.fits", "Light")

\* the lists: empty, one, two, mismatched, and lists in which a round rejects
RunLists ==
    {<< >>, <<RunA>>, <<RunB, RunA>>, <<RunA, RunM>>, <<RunA, RunC, RunB>>,
     <<RunA, RunA, RunA, RunB>>, <<RunB, RunA, RunC, RunA>>}

RunOperands == {FrameOf(2, 1, <<FromInt(2), Zero(0)>>), FrameOf(1, 2, <<FromInt(2), FromInt(2)>>)}

\* no invocation yet
NotStarted ==
    [pc |-> "idle", op |-> "none", sigma |-> Zero(0), iterations |-> 0,
     factor |-> Zero(0), todo |-> << >>, at |-> << >>, values |-> << >>,
     before |-> << >>, rounds |-> 0, steps |-> 0, out |-> << >>,
     min |-> F32_MAX, max |-> F32_MIN, sum |-> Zero(0)]

InitRun ==
    /\ images \in RunLists
    /\ call = Idle
    /\ result = Idle
    /\ receiver = FrameOf(2, 1, <<FromInt(6), FromInt(-3)>>)
    /\ operand \in RunOperands
    /\ arith = Idle
    /\ statistics = Idle
    /\ par = Idle
    /\ run = NotStarted
    /\ app = Idle
    /\ view = Idle
    /\ textures = Idle

\* largest `iterations` argument of the calls taken step by step
MaxRounds == MaxIter + 2

\* the caller has not made its call yet
NoneYet == run.pc = "idle"

\* `for y in 0..height { for x in 0..width {`: the coordinates in loop order
RowMajor(width, height) ==
    [k \in 1 .. width * height |-> <<(k - 1) \div width, (k - 1) % width>>]

\* the value a combiner returns for these arguments, computed at once
Combined(op, imgs, sigma, iterations) ==
    IF op = "average" THEN average(imgs)
    ELSE IF op = "median" THEN median(imgs)
    ELSE sigma_clipping(imgs, sigma, iterations)

\* the checks of a combiner, then the result image and the loop over it
RunCombiner ==
    /\ NoneYet
    /\ \E op \in {"average", "median", "sigma_clipping"},
          sigma \in Sigmas, iterations \in 0 .. MaxRounds :
        /\ op # "sigma_clipping" => sigma = Zero(0) /\ iterations = 0
        /\ call' = [op |-> op, sigma |-> sigma, iterations |-> iterations]
        /\ IF images = << >> \/ ~DimensionsMatch(images)
           THEN /\ result' = Combined(op, images, sigma, iterations)
                /\ run' = [run EXCEPT !.pc = "failed", !.op = op]
           ELSE /\ result' = result
                /\ run' = [run EXCEPT
                             !.pc = "pixel", !.op = op, !.sigma = sigma,
                             !.iterations = iterations,
                             !.todo = RowMajor(dimensions(images[1])[1],
                                               dimensions(images[1])[2]),
                             !.out = Template(images[1]).data]
    /\ UNCHANGED <<images, receiver, operand, arith, statistics, par, app, view, textures>>

\* average and median: the body of the inner loop at the next coordinate
AtPixel ==
    /\ run.pc = "pixel"
    /\ run.op \in {"average", "median"}
    /\ run.todo # << >>

RunPixel ==
    /\ AtPixel
    /\ LET c      == Head(run.todo)
           values == SamplesAt(images, c)
       IN  run' = [run EXCEPT
                     !.todo = Tail(@), !.steps = @ + 1,
                     !.out[c] = IF run.op = "average" THEN AveragePixel(values)
                                ELSE MedianPixel(values)]
    /\ UNCHANGED <<images, call, result, receiver, operand, arith, statistics, par, app, view, textures>>

\* sigma_clipping line 151: the samples at the next coordinate
AtCollect ==
    /\ run.pc = "pixel"
    /\ run.op = "sigma_clipping"
    /\ run.todo # << >>

RunCollect ==
    /\ AtCollect
    /\ run' = [run EXCEPT !.pc = "clip", !.at = Head(run.todo), !.todo = Tail(@),
                          !.values = SamplesAt(images, Head(run.todo)),
                          !.before = SamplesAt(images, Head(run.todo)),
                          !.rounds = 0, !.steps = @ + 1]
    /\ UNCHANGED <<images, call, result, receiver, operand, arith, statistics, par, app, view, textures>>

\* (mutation) the range never runs out: `loop` for `for _ in 0..iterations`
RangeDone_never(rounds, iterations) == FALSE

\* `for _ in 0..iterations` has run out
RangeDone(rounds, iterations) == rounds >= iterations

\* the loop takes another round (rounds are counted up to MaxRounds + 1 only)
AtRound ==
    /\ run.pc = "clip"
    /\ ~RangeDone(run.rounds, run.iterations)
    /\ run.rounds <= MaxRounds
    /\ Len(run.values) > 2

\* lines 154-170: one round of the rejection loop
RunClipRound ==
    /\ AtRound
    /\ run' = [run EXCEPT !.before = run.values,
                          !.values = ClipOnce(run.values, run.sigma),
                          !.rounds = @ + 1]
    /\ UNCHANGED <<images, call, result, receiver, operand, arith, statistics, par, app, view, textures>>

\* lines 155-157 and 172-177: the loop is left and the sample is stored
AtStore ==
    /\ run.pc = "clip"
    /\ RangeDone(run.rounds, run.iterations) \/ Len(run.values) <= 2

RunClipStore ==
    /\ AtStore
    /\ run' = [run EXCEPT !.pc = "pixel",
                          !.out[run.at] = MeanOfRemaining(run.values)]
    /\ UNCHANGED <<images, call, result, receiver, operand, arith, statistics, par, app, view, textures>>

\* `Ok(result)` of a combiner
AtCombinerReturn == run.pc = "pixel" /\ run.todo = << >>

RunCombinerReturn ==
    /\ AtCombinerReturn
    /\ result' = Success(Template(images[1]), run.out)
    /\ run' = [run EXCEPT !.pc = "done"]
    /\ UNCHANGED <<images, call, receiver, operand, arith, statistics, par, app, view, textures>>

\* the assignment in the loop body of add, subtract, multiply, divide, scale
ArithPixel(op, a, b, factor) ==
    IF op = "add" THEN FAdd(a, b)
    ELSE IF op = "subtract" THEN FSub(a, b)
    ELSE IF op = "multiply" THEN FMul(a, b)
    ELSE IF op = "divide" THEN DividePixel(a, b)
    ELSE FMul(a, factor)

\* the dimension check of an arithmetic call (scale has none), then its loop
RunArith ==
    /\ NoneYet
    /\ \E op \in {"add", "subtract", "multiply", "divide", "scale"}, factor \in Factors :
        /\ op # "scale" => factor = FromInt(1)
        /\ IF op # "scale" /\ ~SameDimensions(receiver, operand)
           THEN /\ run' = [run EXCEPT !.pc = "failed", !.op = op]
                /\ arith' = [op |-> op, ok |-> FALSE, err |-> "DimensionError",
                             old |-> receiver]
           ELSE /\ run' = [run EXCEPT
                             !.pc = "cell", !.op = op, !.factor = factor,
                             !.todo = RowMajor(dimensions(receiver)[1],
                                               dimensions(receiver)[2])]
                /\ arith' = [op |-> op, old |-> receiver]
    /\ UNCHANGED <<images, call, result, receiver, operand, statistics, par, app, view, textures>>

\* one turn of the inner loop of an arithmetic call
AtCell == run.pc = "cell" /\ run.todo # << >>

RunCell ==
    /\ AtCell
    /\ LET c == Head(run.todo)
       IN  receiver' = [receiver EXCEPT !.data[c] =
               ArithPixel(run.op, receiver.data[c],
                          IF run.op = "scale" THEN Zero(0) ELSE operand.data[c],
                          run.factor)]
    /\ run' = [run EXCEPT !.todo = Tail(@), !.steps = @ + 1]
    /\ UNCHANGED <<images, call, result, operand, arith, statistics, par, app, view, textures>>

\* `Ok(())`, or the plain return of scale
AtArithReturn == run.pc = "cell" /\ run.todo = << >>

RunArithReturn ==
    /\ AtArithReturn
    /\ arith' = [ok |-> TRUE, err |-> "none"] @@ arith
    /\ run' = [run EXCEPT !.pc = "done"]
    /\ UNCHANGED <<images, call, result, receiver, operand, statistics, par, app, view, textures>>

\* calculate_statistics lines 362-364: the accumulators
RunStatistics ==
    /\ NoneYet
    /\ run' = [run EXCEPT !.pc = "stat", !.op = "calculate_statistics",
                          !.values = Flatten(receiver.data)]
    /\ UNCHANGED <<images, call, result, receiver, operand, arith, statistics, par, app, view, textures>>

\* lines 367-375: one turn of the first pass
AtStatValue == run.pc = "stat" /\ run.values # << >>

RunStatValue ==
    /\ AtStatValue
    /\ LET value == Head(run.values)
       IN  run' = [run EXCEPT
                     !.values = Tail(@), !.steps = @ + 1,
                     !.sum = FAdd(@, value),
                     !.min = IF FLt(value, @) THEN value ELSE @,
                     !.max = IF FGt(value, @) THEN value ELSE @]
    /\ UNCHANGED <<images, call, result, receiver, operand, arith, statistics, par, app, view, textures>>

\* lines 377-407: the mean, the second pass, the median and the return
AtStatFinish == run.pc = "stat" /\ run.values = << >>

RunStatFinish ==
    /\ AtStatFinish
    /\ statistics' = [op |-> "calculate_statistics"] @@ calculate_statistics(receiver)
    /\ run' = [run EXCEPT !.pc = "done"]
    /\ UNCHANGED <<images, call, result, receiver, operand, arith, par, app, view, textures>>

NextRun ==
    \/ RunCombiner
    \/ RunPixel
    \/ RunCollect
    \/ RunClipRound
    \/ RunClipStore
    \/ RunCombinerReturn
    \/ RunArith
    \/ RunCell
    \/ RunArithReturn
    \/ RunStatistics
    \/ RunStatValue
    \/ RunStatFinish

SpecRun == InitRun /\ [][NextRun]_vars

\* --- the combiners on samples of mixed kind: small integers, a fraction
\* whose multiples are rounded, a negative sample and f32::MAX
RangeSamples == {FromInt(10), FromInt(30), Lit(174, -4), FromInt(-3), F32_MAX}
RangeFrames == {Frame(2, 1, a, FromInt(7), "a.fits", "Light") : a \in RangeSamples}

InitRange ==
    /\ images \in SeqsUpTo(RangeFrames, MaxImages - 1)
    /\ call = Idle
    /\ result = Idle
    /\ receiver = NoImage
    /\ operand = NoImage
    /\ arith = Idle
    /\ statistics = Idle
    /\ par = Idle
    /\ run = Idle
    /\ app = Idle
    /\ view = Idle
    /\ textures = Idle

SpecRange == InitRange /\ [][Next]_vars

\* --- the combiners on every ordering of the same frames: the samples 0, 3,
\* 1 and 2^Precision (which absorbs an added 1), one frame from another file
OrderFrames ==
    {Frame(2, 1, Zero(0), FromInt(7), "a.fits", "Light"),
     Frame(2, 1, FromInt(3), FromInt(7), "a.fits", "Light"),
     Frame(2, 1, FromInt(1), FromInt(3), "b.fits", "Dark"),
     Frame(2, 1, FromInt(2 ^ Precision), FromInt(7), "a.fits", "Light")}

InitOrder ==
    /\ images \in SeqsUpTo(OrderFrames, MaxImages - 1)
    /\ call = Idle
    /\ result = Idle
    /\ receiver = NoImage
    /\ operand = NoImage
    /\ arith = Idle
    /\ statistics = Idle
    /\ par = Idle
    /\ run = Idle
    /\ app = Idle
    /\ view = Idle
    /\ textures = Idle

SpecOrder == InitOrder /\ [][Next]_vars

\* --- the rejection rounds of sigma_clipping on chosen sample sets
\* a list of 2x1 frames with the given samples at [0, 0] and at [0, 1]
ListOf(first, second) ==
    [i \in DOMAIN first |-> Frame(2, 1, first[i], second[i], "a.fits", "Light")]

\* the sample sets: an outlier among equal samples; two pairs whose mean and
\* deviations are rounded; three samples whose sum overflows; an evenly
\* spaced triple; a pair
ClipLists ==
    {ListOf(<<FromInt(10), FromInt(10), FromInt(10), FromInt(30)>>,
            <<FromInt(7), FromInt(7), FromInt(7), FromInt(7)>>),
     ListOf(<<Lit(149, -4), Lit(149, -4), FromInt(233), FromInt(233)>>,
            <<FromInt(1), FromInt(2), FromInt(1), FromInt(2)>>),
     ListOf(<<F32_MAX, F32_MAX, F32_MAX>>, <<FromInt(1), FromInt(1), FromInt(1)>>),
     ListOf(<<FromInt(10), FromInt(20), FromInt(30)>>,
            <<FromInt(7), FromInt(7), FromInt(7)>>),
     ListOf(<<FromInt(10), FromInt(30)>>, <<FromInt(7), FromInt(1)>>)}

InitClip ==
    /\ images \in ClipLists
    /\ call = Idle
    /\ result = Idle
    /\ receiver = NoImage
    /\ operand = NoImage
    /\ arith = Idle
    /\ statistics = Idle
    /\ par = Idle
    /\ run = NotStarted
    /\ app = Idle
    /\ view = Idle
    /\ textures = Idle

NextClip ==
    \/ RunCombiner
    \/ RunPixel
    \/ RunCollect
    \/ RunClipRound
    \/ RunClipStore
    \/ RunCombinerReturn

SpecClip == InitClip /\ [][NextClip]_vars

\* --- the statistics of a frame
InitStats ==
    /\ images = << >>
    /\ call = Idle
    /\ result = Idle
    /\ receiver \in StatFrames
    /\ operand = NoImage
    /\ arith = Idle
    /\ statistics = Idle
    /\ par = Idle
    /\ run = Idle
    /\ app = Idle
    /\ view = Idle
    /\ textures = Idle

CalculateStatistics ==
    /\ statistics = Idle
    /\ statistics' = [op |-> "calculate_statistics"] @@ calculate_statistics(receiver)
    /\ UNCHANGED <<images, call, result, receiver, operand, arith, par, run, app, view, textures>>

NextStats == CalculateStatistics

SpecStats == InitStats /\ [][NextStats]_vars

\* --------------------------------------------------- gui/registration.rs model
\* Option<T>: None and Some(x)
None == << >>
Some(x) == <<x>>

StretchMethods == {"Linear", "Logarithmic", "AutoStretch"}

\* the frame types in the order of EventideApp::default(); the model follows
\* the first MaxTypes of them, Light (frame_sets[0]) always among them
FrameTypeOrder == <<"Light", "Dark", "Flat", "Bias", "DarkFlat">>
GuiTypes == {FrameTypeOrder[i] : i \in 1 .. MaxTypes}

\* RegisteredFrame::new: selected, no preview yet. The pixel data read from
\* the file plays no part in what the view records and is left out.
RegisteredFrame_new(path, frame_type) ==
    [path |-> path, selected |-> TRUE, preview_data |-> None, preview_stretch |-> None]

\* (mutation) a cached preview is rebuilt all the same
generate_preview_always(frame, loaded, stretch_method) ==
    [frame  |-> [frame EXCEPT
                    !.preview_data = Some([texture |-> loaded + 1,
                                           stretch |-> stretch_method]),
                    !.preview_stretch = Some(stretch_method)],
     loaded |-> loaded + 1]

\* RegisteredFrame::generate_preview: returns early on a cached preview of the
\* same stretch; otherwise loads a new texture made with stretch_method and
\* records the method. `loaded` counts the textures of the egui Context; the
\* texture of a preview is [texture |-> its number, stretch |-> the method the
\* pixels were stretched with].
generate_preview(frame, loaded, stretch_method) ==
    IF frame.preview_data # None /\ frame.preview_stretch = Some(stretch_method)
    THEN [frame |-> frame, loaded |-> loaded]
    ELSE [frame  |-> [frame EXCEPT
                         !.preview_data = Some([texture |-> loaded + 1,
                                                stretch |-> stretch_method]),
                         !.preview_stretch = Some(stretch_method)],
          loaded |-> loaded + 1]

\* RegistrationView::default(): no entry in `frames`, None for every type
DefaultView ==
    [active_tab |-> "Light",
     frames |-> << >>,
     selected_frame_indices |-> [t \in GuiTypes |-> None],
     selected_stretch |-> "Linear"]

\* `self.frames.get(&frame_type)` is Some
HasFrames(v, frame_type) == frame_type \in DOMAIN v.frames

\* the frame at a 0-based index of a type's list
FrameAt(v, frame_type, index) == v.frames[frame_type][index + 1]

\* RegistrationView::ensure_preview
ensure_preview(v, loaded, frame_type, index) ==
    IF HasFrames(v, frame_type) /\ index < Len(v.frames[frame_type])
    THEN LET stretch == v.selected_stretch
             frame == FrameAt(v, frame_type, index)
         IN  IF frame.preview_data = None \/ frame.preview_stretch # Some(stretch)
             THEN LET made == generate_preview(frame, loaded, stretch)
                  IN  [view   |-> [v EXCEPT !.frames[frame_type][index + 1] = made.frame],
                       loaded |-> made.loaded]
             ELSE [view |-> v, loaded |-> loaded]
    ELSE [view |-> v, loaded |-> loaded]

\* RegistrationView::regenerate_preview (no caller in the repository)
regenerate_preview(v, loaded, frame_type, index) ==
    IF HasFrames(v, frame_type) /\ index < Len(v.frames[frame_type])
    THEN ensure_preview([v EXCEPT !.frames[frame_type][index + 1].preview_data = None,
                                  !.frames[frame_type][index + 1].preview_stretch = None],
                        loaded, frame_type, index)
    ELSE [view |-> v, loaded |-> loaded]

\* RegistrationView::load_frames_from_paths: the type's list is replaced, and
\* the selection is set to the first frame only if there is one
load_frames_from_paths(v, frame_type, paths) ==
    LET frames == [i \in 1 .. Len(paths) |-> RegisteredFrame_new(paths[i], frame_type)]
        inserted == [v EXCEPT !.frames = (frame_type :> frames) @@ v.frames]
    IN  IF Len(paths) > 0
        THEN [inserted EXCEPT !.selected_frame_indices[frame_type] = Some(0)]
        ELSE inserted

\* RegistrationView::get_selected_frames
get_selected_frames(v, frame_type) ==
    IF HasFrames(v, frame_type)
    THEN LET frames == v.frames[frame_type]
             Chosen[i \in 0 .. Len(frames)] ==
                 IF i = 0 THEN << >>
                 ELSE IF frames[i].selected THEN Append(Chosen[i - 1], frames[i].path)
                      ELSE Chosen[i - 1]
         IN  Chosen[Len(frames)]
    ELSE << >>

\* What the user does in one pass of RegistrationView::ui: nothing, or one
\* click. A widget can be clicked only where the pass draws it.
NoClick == [widget |-> "none"]

\* the stretch ComboBox of render_frame_preview is drawn for a selected index
\* inside the list
PreviewShown(v) ==
    LET selected == v.selected_frame_indices[v.active_tab]
    IN  /\ selected # None
        /\ HasFrames(v, v.active_tab)
        /\ selected[1] < Len(v.frames[v.active_tab])

\* the rows of render_frame_table, by 0-based index
Rows(v) ==
    IF HasFrames(v, v.active_tab) THEN 0 .. Len(v.frames[v.active_tab]) - 1 ELSE {}

\* "Select All" / "Deselect All"
SetAll(v, selected) ==
    IF HasFrames(v, v.active_tab)
    THEN [v EXCEPT !.frames[v.active_tab] =
                       [i \in DOMAIN @ |-> [@[i] EXCEPT !.selected = selected]]]
    ELSE v

\* RegistrationView::ui, one pass: the tab bar, ensure_preview of the active
\* tab's selected index, the preview with its stretch ComboBox, the table
\* with its checkboxes and View buttons, the two selection buttons
ui(v, loaded, click) ==
    LET tabbed == IF click.widget = "tab"
                  THEN [v EXCEPT !.active_tab = click.frame_type] ELSE v
        selected == tabbed.selected_frame_indices[tabbed.active_tab]
        ensured == IF selected # None
                   THEN ensure_preview(tabbed, loaded, tabbed.active_tab, selected[1])
                   ELSE [view |-> tabbed, loaded |-> loaded]
        previewed == IF click.widget = "stretch" /\ PreviewShown(ensured.view)
                     THEN [ensured.view EXCEPT !.selected_stretch = click.method]
                     ELSE ensured.view
        tab == previewed.active_tab
        tabled == IF click.widget = "checkbox" /\ click.index \in Rows(previewed)
                  THEN [previewed EXCEPT
                           !.frames[tab][click.index + 1].selected = ~@]
                  ELSE IF click.widget = "view" /\ click.index \in Rows(previewed)
                  THEN [previewed EXCEPT
                           !.selected_frame_indices[tab] = Some(click.index)]
                  ELSE previewed
        controls == IF click.widget = "select_all" THEN SetAll(tabled, TRUE)
                    ELSE IF click.widget = "deselect_all" THEN SetAll(tabled, FALSE)
                    ELSE tabled
    IN  [view |-> controls, loaded |-> ensured.loaded]

\* ------------------------------------------------------------ gui/app.rs model
WorkflowSteps == {"FolderSelection", "Registration", "Processing", "Results"}

\* the directories the file dialog can return for a frame set
Directories == {"/sky/m31", "/sky/m42"}

\* the directory it can return for the output
OutputDirectories == {"/sky/out"}

\* what a directory can hold when it is read: up to MaxFiles image files and
\* a file that is no image
DirEntries ==
    {[name |-> n, extension |-> "fits"] : n \in 1 .. MaxFiles}
        \cup {[name |-> 0, extension |-> "txt"]}

\* the outcomes of fs::read_dir: an error, or the entries found
ReadDirs == {[ok |-> FALSE]} \cup {[ok |-> TRUE, entries |-> e] : e \in SUBSET DirEntries}

\* `entry.path()`
PathOf(dir, entry) == [directory |-> dir, name |-> entry.name]

\* `self.file_paths.sort()`: the paths in ascending order
SortPaths(paths) ==
    CHOOSE s \in [1 .. Cardinality(paths) -> paths] :
        \A i, j \in 1 .. Cardinality(paths) : i < j => s[i].name < s[j].name

\* FrameSet::new
FrameSet_new(frame_type, is_required) ==
    [frame_type |-> frame_type, directory |-> None, file_paths |-> << >>,
     is_required |-> is_required]

\* FrameSet::scan_directory: on Ok the list is rebuilt from the files with an
\* image extension, sorted; on Err it is left as it was
scan_directory(frame_set, read_dir) ==
    IF frame_set.directory = None \/ ~read_dir.ok THEN frame_set
    ELSE [frame_set EXCEPT
             !.file_paths =
                 SortPaths({PathOf(frame_set.directory[1], e) :
                               e \in {f \in read_dir.entries :
                                         f.extension \in {"fit", "fits", "fts"}}})]

\* EventideApp::default(), the registration view apart (it is `view`)
DefaultApp ==
    [frame_sets |-> [i \in 1 .. MaxTypes |-> FrameSet_new(FrameTypeOrder[i], i = 1)],
     output_directory |-> None,
     current_step |-> "FolderSelection"]

\* EventideApp::load_frames_for_registration: the frame sets in order, those
\* without files skipped
load_frames_for_registration(a, v) ==
    LET Loaded[i \in 0 .. Len(a.frame_sets)] ==
            IF i = 0 THEN v
            ELSE IF a.frame_sets[i].file_paths # << >>
                 THEN load_frames_from_paths(Loaded[i - 1], a.frame_sets[i].frame_type,
                                             a.frame_sets[i].file_paths)
                 ELSE Loaded[i - 1]
    IN  Loaded[Len(a.frame_sets)]

\* `can_proceed` of render_folder_selection_step: frame_sets[0] is Light
can_proceed(a) == a.frame_sets[1].directory # None /\ a.output_directory # None

\* `can_continue` of render_registration_step
can_continue(v) == get_selected_frames(v, "Light") # << >>

\* the step that EventideApp::update renders
InStep(step) == app.current_step = step

\* One pass of RegistrationView::ui with the given click, no button below the
\* view clicked. MaxTextures caps the textures the model lets the Context load.
UiPass(click) ==
    /\ LET pass == ui(view, textures, click)
       IN  /\ pass.loaded <= MaxTextures
           /\ view' = pass.view
           /\ textures' = pass.loaded
    /\ UNCHANGED <<images, call, result, receiver, operand, arith, statistics, par, run, app>>

\* --- render_folder_selection_step
\* "Select" of the output directory; the dialog may be cancelled
SelectOutputDirectory ==
    /\ InStep("FolderSelection")
    /\ \E picked \in {None} \cup {Some(d) : d \in OutputDirectories} :
        app' = IF picked # None THEN [app EXCEPT !.output_directory = picked] ELSE app
    /\ UNCHANGED <<images, call, result, receiver, operand, arith, statistics, par, run, view, textures>>

\* "Clear" of the output directory, drawn when one is selected
ClearOutputDirectory ==
    /\ InStep("FolderSelection")
    /\ app.output_directory # None
    /\ app' = [app EXCEPT !.output_directory = None]
    /\ UNCHANGED <<images, call, result, receiver, operand, arith, statistics, par, run, view, textures>>

\* ui_frame_set, "Select Directory": the directory is stored and scanned
SelectDirectory ==
    /\ InStep("FolderSelection")
    /\ \E index \in 1 .. MaxTypes, picked \in {None} \cup {Some(d) : d \in Directories},
          read_dir \in ReadDirs :
        app' = IF picked # None
               THEN [app EXCEPT !.frame_sets[index] =
                                    scan_directory([@ EXCEPT !.directory = picked], read_dir)]
               ELSE app
    /\ UNCHANGED <<images, call, result, receiver, operand, arith, statistics, par, run, view, textures>>

\* ui_frame_set, "Refresh", drawn when a directory is selected
Refresh ==
    /\ InStep("FolderSelection")
    /\ \E index \in 1 .. MaxTypes, read_dir \in ReadDirs :
        /\ app.frame_sets[index].directory # None
        /\ app' = [app EXCEPT !.frame_sets[index] = scan_directory(@, read_dir)]
    /\ UNCHANGED <<images, call, result, receiver, operand, arith, statistics, par, run, view, textures>>

\* ui_frame_set, "Clear", drawn when a directory is selected
Clear ==
    /\ InStep("FolderSelection")
    /\ \E index \in 1 .. MaxTypes :
        /\ app.frame_sets[index].directory # None
        /\ app' = [app EXCEPT !.frame_sets[index].directory = None,
                              !.frame_sets[index].file_paths = << >>]
    /\ UNCHANGED <<images, call, result, receiver, operand, arith, statistics, par, run, view, textures>>

\* "Continue to Registration", enabled by can_proceed
ContinueToRegistration ==
    /\ InStep("FolderSelection")
    /\ can_proceed(app)
    /\ view' = load_frames_for_registration(app, view)
    /\ app' = [app EXCEPT !.current_step = "Registration"]
    /\ UNCHANGED <<images, call, result, receiver, operand, arith, statistics, par, run, textures>>

\* --- render_workflow_navbar: a step is clicked, and the same pass renders it
SelectStep ==
    \E step \in WorkflowSteps :
        /\ app' = [app EXCEPT !.current_step = step]
        /\ LET pass == IF step = "Registration" THEN ui(view, textures, NoClick)
                       ELSE [view |-> view, loaded |-> textures]
           IN  /\ pass.loaded <= MaxTextures
               /\ view' = pass.view
               /\ textures' = pass.loaded
        /\ UNCHANGED <<images, call, result, receiver, operand, arith, statistics, par, run>>

\* --- render_registration_step
\* a pass without a click
Repaint ==
    /\ InStep("Registration")
    /\ UiPass(NoClick)

\* a tab of the tab bar
ClickTab ==
    /\ InStep("Registration")
    /\ \E t \in GuiTypes : UiPass([widget |-> "tab", frame_type |-> t])

\* an entry of the stretch ComboBox
ChangeStretch ==
    /\ InStep("Registration")
    /\ PreviewShown(ui(view, textures, NoClick).view)
    /\ \E m \in StretchMethods : UiPass([widget |-> "stretch", method |-> m])

\* the "Use" checkbox of a row
ToggleFrame ==
    /\ InStep("Registration")
    /\ \E index \in Rows(view) : UiPass([widget |-> "checkbox", index |-> index])

\* the "View" button of a row
ClickView ==
    /\ InStep("Registration")
    /\ \E index \in Rows(view) : UiPass([widget |-> "view", index |-> index])

\* "Select All"
SelectAll ==
    /\ InStep("Registration")
    /\ UiPass([widget |-> "select_all"])

\* "Deselect All"
DeselectAll ==
    /\ InStep("Registration")
    /\ UiPass([widget |-> "deselect_all"])

\* "< Back to Folder Selection", below the view that the pass has drawn
BackToFolderSelection ==
    /\ InStep("Registration")
    /\ LET pass == ui(view, textures, NoClick)
       IN  /\ pass.loaded <= MaxTextures
           /\ view' = pass.view
           /\ textures' = pass.loaded
    /\ app' = [app EXCEPT !.current_step = "FolderSelection"]
    /\ UNCHANGED <<images, call, result, receiver, operand, arith, statistics, par, run>>

\* "Continue to Processing >", enabled by can_continue
ContinueToProcessing ==
    /\ InStep("Registration")
    /\ LET pass == ui(view, textures, NoClick)
       IN  /\ pass.loaded <= MaxTextures
           /\ can_continue(pass.view)
           /\ view' = pass.view
           /\ textures' = pass.loaded
    /\ app' = [app EXCEPT !.current_step = "Processing"]
    /\ UNCHANGED <<images, call, result, receiver, operand, arith, statistics, par, run>>

\* --- render_processing_step
BackToRegistration ==
    /\ InStep("Processing")
    /\ app' = [app EXCEPT !.current_step = "Registration"]
    /\ UNCHANGED <<images, call, result, receiver, operand, arith, statistics, par, run, view, textures>>

StartProcessing ==
    /\ InStep("Processing")
    /\ app' = [app EXCEPT !.current_step = "Results"]
    /\ UNCHANGED <<images, call, result, receiver, operand, arith, statistics, par, run, view, textures>>

\* --- render_results_step
BackToProcessing ==
    /\ InStep("Results")
    /\ app' = [app EXCEPT !.current_step = "Processing"]
    /\ UNCHANGED <<images, call, result, receiver, operand, arith, statistics, par, run, view, textures>>

\* --- the workflow from the start of the application: the folder selection,
\* the step changes, and in the registration view the "Use" selection that
\* enables "Continue to Processing >"
InitGui ==
    /\ images = << >>
    /\ call = Idle
    /\ result = Idle
    /\ receiver = NoImage
    /\ operand = NoImage
    /\ arith = Idle
    /\ statistics = Idle
    /\ par = Idle
    /\ run = Idle
    /\ app = DefaultApp
    /\ view = DefaultView
    /\ textures = 0

NextGui ==
    \/ SelectOutputDirectory
    \/ ClearOutputDirectory
    \/ SelectDirectory
    \/ Refresh
    \/ Clear
    \/ ContinueToRegistration
    \/ SelectStep
    \/ Repaint
    \/ ToggleFrame
    \/ SelectAll
    \/ DeselectAll
    \/ BackToFolderSelection
    \/ ContinueToProcessing
    \/ BackToRegistration
    \/ StartProcessing
    \/ BackToProcessing

SpecGui == InitGui /\ [][NextGui]_vars

\* --- the registration view on its own, in the Registration step: frames are
\* loaded through load_frames_from_paths, and the user switches tabs, picks
\* frames to view and changes the stretch
ViewDirectory == "/sky/m31"

\* the path lists handed to load_frames_from_paths
PathLists ==
    {[i \in 1 .. n |-> [directory |-> ViewDirectory, name |-> i]] : n \in 0 .. MaxFiles}

LoadFramesFromPaths ==
    /\ \E frame_type \in GuiTypes, paths \in PathLists :
        view' = load_frames_from_paths(view, frame_type, paths)
    /\ UNCHANGED <<images, call, result, receiver, operand, arith, statistics, par, run, app, textures>>

InitView ==
    /\ images = << >>
    /\ call = Idle
    /\ result = Idle
    /\ receiver = NoImage
    /\ operand = NoImage
    /\ arith = Idle
    /\ statistics = Idle
    /\ par = Idle
    /\ run = Idle
    /\ app = [DefaultApp EXCEPT !.current_step = "Registration"]
    /\ view = DefaultView
    /\ textures = 0

NextView ==
    \/ LoadFramesFromPaths
    \/ Repaint
    \/ ClickTab
    \/ ChangeStretch
    \/ ClickView

SpecView == InitView /\ [][NextView]_vars

\* ------------------------------------------------------ reference notions
\* the spec's error names, as the code spells them
EmptyInput == "FormatError"
DimensionMismatch == "DimensionError"

\* a finite sample as an exact integer, in units of 2^-FixBits
FixBits == Precision + 4
Fixed(a) ==
    IF IsZero(a) THEN 0
    ELSE (IF a.s = 1 THEN 0 - a.m ELSE a.m) * (2 ^ (a.e + FixBits))

RECURSIVE FixedSum(_, _)
FixedSum(values, n) == IF n = 0 THEN 0 ELSE Fixed(values[n]) + FixedSum(values, n - 1)

Abs(n) == IF n < 0 THEN 0 - n ELSE n

\* the sum of the first n of the integers ns
RECURSIVE FixedTotal(_, _)
FixedTotal(ns, n) == IF n = 0 THEN 0 ELSE ns[n] + FixedTotal(ns, n - 1)

\* out is a sample nearest to the exact quotient (sum of values) / count,
\* and is that quotient when it is a sample
NearestToMean(out, values) ==
    LET S == FixedSum(values, Len(values))
        N == Len(values)
    IN  IF S = 0 THEN IsZero(out)
        ELSE /\ IsFin(out) /\ ~IsZero(out) /\ out.e + FixBits >= 0
             /\ 2 * Abs(Fixed(out) * N - S) <= N * (2 ^ (out.e + FixBits))
             /\ LET exact == RoundFin(IF S < 0 THEN 1 ELSE 0, Abs(S \div N), 0 - FixBits, FALSE)
                IN  (S % N = 0 /\ Fixed(exact) = S \div N) => out = exact

\* the k-th smallest of the values, by counting (no sorting)
Kth(values, k) ==
    CHOOSE v \in {values[i] : i \in DOMAIN values} :
        /\ Cardinality({i \in DOMAIN values : FLt(values[i], v)}) < k
        /\ Cardinality({i \in DOMAIN values : FLe(values[i], v)}) >= k

\* the values at the indices in S, in list order
Pick(values, S) ==
    LET idx == SelectSeq([i \in 1 .. Len(values) |-> i], LAMBDA i : i \in S)
    IN  [j \in 1 .. Len(idx) |-> values[idx[j]]]

PopMean(values) == FDiv(FSum(values), FromInt(Len(values)))
PopStdDev(values) ==
    LET mean == PopMean(values)
    IN  FSqrt(FDiv(FSum([i \in 1 .. Len(values) |->
                           FMul(FSub(values[i], mean), FSub(values[i], mean))]),
                   FromInt(Len(values))))

\* the indices that survive `rounds` rounds of rejection, starting from S
RECURSIVE Survivors(_, _, _, _)
Survivors(values, S, sigma, rounds) ==
    IF rounds = 0 \/ Cardinality(S) <= 2 THEN S
    ELSE LET cur   == Pick(values, S)
             mean  == PopMean(cur)
             dev   == FMul(sigma, PopStdDev(cur))
             lower == FSub(mean, dev)
             upper == FAdd(mean, dev)
         IN  Survivors(values,
                       {i \in S : FLe(lower, values[i]) /\ FLe(values[i], upper)},
                       sigma, rounds - 1)

\* identical bits, or numerically equal samples
Same(a, b) == a = b \/ FEq(a, b)

Called == call.op # "none"
PixelsOf(r) == DOMAIN r.image.data
Mismatched(imgs) ==
    /\ imgs # << >>
    /\ \E i \in 2 .. Len(imgs) :
          \/ imgs[i].metadata.dimensions[1] # imgs[1].metadata.dimensions[1]
          \/ imgs[i].metadata.dimensions[2] # imgs[1].metadata.dimensions[2]
Combinable(imgs) == imgs # << >> /\ ~Mismatched(imgs)


\* the paths of the frames the registration view holds for a type, in order
PathsIn(v, frame_type) ==
    IF HasFrames(v, frame_type)
    THEN [i \in 1 .. Len(v.frames[frame_type]) |-> v.frames[frame_type][i].path]
    ELSE << >>

\* a selected index that is None or inside the type's list of frames
ValidSelection(v, frame_type) ==
    \/ v.selected_frame_indices[frame_type] = None
    \/ /\ HasFrames(v, frame_type)
       /\ v.selected_frame_indices[frame_type][1] < Len(v.frames[frame_type])

\* the frames of the registration view, as <<type, 0-based index>>
FramesOf(v) ==
    UNION {{<<t, i>> : i \in 0 .. Len(v.frames[t]) - 1} : t \in DOMAIN v.frames}

\* ------------------------------------------------------------------ claims
\* C1: given an empty list, average, median and sigma_clipping (any sigma and
\* iterations) fail with EmptyInput and produce no output image.
C1_EmptyInputFails ==
    (Called /\ images = << >>) =>
        /\ ~result.ok
        /\ result.err = EmptyInput
        /\ result.image = NoImage
        /\ result.allocs = 0

C1_Witness ==
    /\ call.op = "sigma_clipping" /\ call.iterations > 0
    /\ images = << >>
    /\ ~result.ok

\* C2: a non-empty list with an image (at any position after the first) whose
\* (width, height) differs from the first image's makes each combiner fail with
\* DimensionMismatch before anything is allocated; no output is produced.
C2_MismatchFails ==
    (Called /\ Mismatched(images)) =>
        /\ ~result.ok
        /\ result.err = DimensionMismatch
        /\ result.image = NoImage
        /\ result.allocs = 0

\* the only mismatch is the last image, and it differs in height alone
C2_Witness ==
    /\ call.op = "median"
    /\ Len(images) = 3
    /\ dimensions(images[2]) = dimensions(images[1])
    /\ dimensions(images[3])[1] = dimensions(images[1])[1]
    /\ dimensions(images[3])[2] # dimensions(images[1])[2]
    /\ ~result.ok /\ result.err = DimensionMismatch

C5_MedianIsMiddle ==
    (call.op = "median" /\ Combinable(images)) =>
        /\ result.ok
        /\ PixelsOf(result) = DOMAIN images[1].data
        /\ \A c \in PixelsOf(result) :
              LET values == SamplesAt(images, c)
                  N      == Len(values)
                  out    == result.image.data[c]
              IN  /\ N % 2 = 1 => out = Kth(values, (N + 1) \div 2)
                  /\ N % 2 = 0 =>
                        /\ out = FDiv(FAdd(Kth(values, N \div 2), Kth(values, N \div 2 + 1)),
                                      FromInt(2))
                        /\ 2 * Fixed(out) =
                              Fixed(Kth(values, N \div 2)) + Fixed(Kth(values, N \div 2 + 1))
                  /\ N = 1 => out = values[1]
                  /\ N = 2 => out = FDiv(FAdd(values[1], values[2]), FromInt(2))

\* four samples given out of order, the two middle ones different
C5_Witness ==
    /\ call.op = "median" /\ result.ok
    /\ Len(images) = 4
    /\ SamplesAt(images, <<0, 0>>) = <<FromInt(30), FromInt(10), FromInt(0), FromInt(11)>>
    /\ result.image.data[<<0, 0>>] = Lit(21, -1)

\* C6: sigma_clipping starts from all samples of a coordinate and repeats at
\* most `iterations` times: it stops once 2 or fewer samples remain, otherwise
\* it keeps exactly the samples v with mean - sigma*std_dev <= v <= mean +
\* sigma*std_dev (population mean and standard deviation of the current set);
\* the output is the mean of the samples that remain.
C6_SigmaClipping ==
    (call.op = "sigma_clipping" /\ Combinable(images)) =>
        /\ result.ok
        /\ PixelsOf(result) = DOMAIN images[1].data
        /\ \A c \in PixelsOf(result) :
              LET values == SamplesAt(images, c)
                  left   == Survivors(values, DOMAIN values, call.sigma, call.iterations)
              IN  left # {} => result.image.data[c] = PopMean(Pick(values, left))

\* both of two rounds reject something
C6_Witness ==
    /\ call.op = "sigma_clipping" /\ result.ok /\ call.iterations = 2
    /\ LET values == SamplesAt(images, <<0, 0>>)
       IN  /\ Len(values) = 4
           /\ Cardinality(Survivors(values, DOMAIN values, call.sigma, 1)) = 3
           /\ Cardinality(Survivors(values, DOMAIN values, call.sigma, 2)) \in {1, 2}
           /\ result.image.data[<<0, 0>>] =
                 PopMean(Pick(values, Survivors(values, DOMAIN values, call.sigma, 2)))
           /\ result.image.data[<<0, 0>>] #
                 PopMean(Pick(values, Survivors(values, DOMAIN values, call.sigma, 1)))

\* the outcomes of two calls agree: the same error, or images with the same
\* metadata, frame type and samples
SameOutcome(r1, r2) ==
    /\ r1.ok = r2.ok
    /\ r1.err = r2.err
    /\ r1.ok =>
          /\ r1.image.metadata = r2.image.metadata
          /\ r1.image.frame_type = r2.image.frame_type
          /\ DOMAIN r1.image.data = DOMAIN r2.image.data
          /\ \A c \in DOMAIN r1.image.data : r1.image.data[c] = r2.image.data[c]

\* C7: for every list (empty and mismatched ones too) and every sigma,
\* sigma_clipping(sigma, 0) has the outcome of average: the same error, or an
\* image with the same samples, metadata and frame type.
C7_ZeroIterationsIsAverage ==
    (call.op = "sigma_clipping" /\ call.iterations = 0) =>
        SameOutcome(result, average(images))

\* a list on which one round of rejection would have changed the output
C7_Witness ==
    /\ call.op = "sigma_clipping" /\ call.iterations = 0 /\ result.ok
    /\ Len(images) >= 3
    /\ images[1].frame_type = "Light"
    /\ result.image.data[<<0, 0>>] #
          sigma_clipping(images, call.sigma, 1).image.data[<<0, 0>>]

\* C8: where every sample of a coordinate has been discarded when the loop
\* ends, the output sample is exactly 0.0 and the call still succeeds; the
\* other coordinates get the mean of their remaining samples.
C8_AllDiscardedGivesZero ==
    (call.op = "sigma_clipping" /\ Combinable(images)) =>
        /\ result.ok
        /\ \A c \in PixelsOf(result) :
              LET values == SamplesAt(images, c)
                  left   == Survivors(values, DOMAIN values, call.sigma, call.iterations)
              IN  IF left = {} THEN result.image.data[c] = Zero(0)
                  ELSE result.image.data[c] = PopMean(Pick(values, left))

\* everything is discarded at [0, 0] and nothing at [0, 1]
C8_Witness ==
    /\ call.op = "sigma_clipping" /\ result.ok
    /\ Len(images) = 3
    /\ Survivors(SamplesAt(images, <<0, 0>>), 1 .. 3, call.sigma, call.iterations) = {}
    /\ Survivors(SamplesAt(images, <<0, 1>>), 1 .. 3, call.sigma, call.iterations) = 1 .. 3
    /\ result.image.data[<<0, 0>>] = Zero(0)
    /\ result.image.data[<<0, 1>>] = FromInt(1)


BinaryOps == {"add", "subtract", "multiply", "divide"}

\* C3: add, subtract, multiply or divide with an operand of other dimensions
\* fails with DimensionMismatch, and every sample of the receiver and of the
\* operand is what it was before the call (nothing is mutated first).
C3_MismatchLeavesSamples ==
    [][(/\ arith'.n = arith.n + 1
        /\ arith'.op \in BinaryOps
        /\ \/ receiver.metadata.dimensions[1] # operand.metadata.dimensions[1]
           \/ receiver.metadata.dimensions[2] # operand.metadata.dimensions[2])
       => /\ ~arith'.ok
          /\ arith'.err = DimensionMismatch
          /\ receiver' = receiver
          /\ operand' = operand]_vars

\* a receiver that an earlier call has changed, then a failing divide by an
\* operand with as many samples in another shape
C3_Witness ==
    /\ arith.op = "divide" /\ arith.n = 2 /\ ~arith.ok
    /\ dimensions(operand) = <<1, 2>>
    /\ receiver = arith.old
    /\ receiver.data[<<0, 0>>] = FromInt(-3)
    /\ receiver.data[<<0, 1>>] = Lit(3, -1)

\* |b| < 1e-10, on the significand and exponent of b
BelowGuard(b) ==
    /\ IsFin(b)
    /\ \/ b.e < ZERO_GUARD.e
       \/ b.e = ZERO_GUARD.e /\ b.m < ZERO_GUARD.m

\* C9: divide with equal dimensions sets every sample to exactly 0.0 where
\* |b| < 1e-10 (strictly) and to a / b elsewhere; a divisor sample of 0.0
\* gives exactly 0.0, never an infinity or NaN.
C9_DivideZeroGuard ==
    (/\ arith.op = "divide"
     /\ arith.old.metadata.dimensions = operand.metadata.dimensions) =>
        /\ arith.ok
        /\ DOMAIN receiver.data = DOMAIN arith.old.data
        /\ \A c \in DOMAIN receiver.data :
              LET a == arith.old.data[c]
                  b == operand.data[c]
              IN  /\ BelowGuard(b) => receiver.data[c] = Zero(0)
                  /\ ~BelowGuard(b) => receiver.data[c] = FDiv(a, b)
                  /\ IsZero(b) => receiver.data[c] = Zero(0)

\* the divisor is 1e-10 itself at [0, 0] and the float just below it, negated,
\* at [0, 1]; the receiver is 6 at both
C9_Witness ==
    /\ arith.op = "divide" /\ arith.ok
    /\ operand.data[<<0, 0>>] = ZERO_GUARD
    /\ operand.data[<<0, 1>>] = FNeg(Pred(ZERO_GUARD))
    /\ arith.old.data[<<0, 0>>] = FromInt(6)
    /\ arith.old.data[<<0, 1>>] = FromInt(6)
    /\ IsFin(receiver.data[<<0, 0>>]) /\ FGt(receiver.data[<<0, 0>>], FromInt(6))
    /\ receiver.data[<<0, 1>>] = Zero(0)

\* C10: for a non-empty buffer, min is the smallest and max the largest
\* sample, mean = sum / count, std_dev = sqrt(sum of squared deviations from
\* that mean / count), median follows the odd/even rule of the median
\* combiner; [1, 2, 3, 4] gives mean 2.5, median 2.5, min 1, max 4 and
\* std_dev = sqrt(1.25).
C10_Statistics ==
    (statistics.op = "calculate_statistics" /\ DOMAIN receiver.data # {}) =>
        LET values  == Flatten(receiver.data)
            samples == {receiver.data[c] : c \in DOMAIN receiver.data}
            N       == Len(values)
            st      == statistics
        IN  /\ st.min \in samples /\ \A v \in samples : FLe(st.min, v)
            /\ st.max \in samples /\ \A v \in samples : FLe(v, st.max)
            /\ NearestToMean(st.mean, values)
            /\ st.mean = PopMean(values)
            /\ st.std_dev = PopStdDev(values)
            /\ N % 2 = 1 => st.median = Kth(values, (N + 1) \div 2)
            /\ N % 2 = 0 =>
                  st.median = FDiv(FAdd(Kth(values, N \div 2), Kth(values, N \div 2 + 1)),
                                   FromInt(2))
            /\ values = <<FromInt(1), FromInt(2), FromInt(3), FromInt(4)>> =>
                  /\ st.mean = Lit(5, -1) /\ st.median = Lit(5, -1)
                  /\ st.min = FromInt(1) /\ st.max = FromInt(4)
                  \* std_dev is the sample nearest to the square root of 5/4
                  /\ IsFin(st.std_dev) /\ st.std_dev.s = 0 /\ st.std_dev.e < 0
                  /\ (2 * st.std_dev.m - 1) * (2 * st.std_dev.m - 1)
                        <= 5 * (2 ^ (0 - 2 * st.std_dev.e))
                  /\ 5 * (2 ^ (0 - 2 * st.std_dev.e))
                        <= (2 * st.std_dev.m + 1) * (2 * st.std_dev.m + 1)

\* the 2x2 buffer [1, 2, 3, 4]
C10_Witness ==
    /\ statistics.op = "calculate_statistics"
    /\ dimensions(receiver) = <<2, 2>>
    /\ Flatten(receiver.data) = <<FromInt(1), FromInt(2), FromInt(3), FromInt(4)>>
    /\ statistics.mean = Lit(5, -1)
    /\ FLt(FromInt(1), statistics.std_dev) /\ FLt(statistics.std_dev, Lit(9, -3))

\* an integer-valued sample and its value
IsInt(a) ==
    /\ IsFin(a)
    /\ \/ IsZero(a)
       \/ a.e >= 0
       \/ a.e > 0 - Precision /\ a.m % (2 ^ (0 - a.e)) = 0
IntOf(a) ==
    IF IsZero(a) THEN 0
    ELSE (IF a.s = 1 THEN 0 - 1 ELSE 1) *
         (IF a.e >= 0 THEN a.m * (2 ^ a.e) ELSE a.m \div (2 ^ (0 - a.e)))

\* C12: with equal dimensions add, subtract and multiply succeed, and every
\* coordinate of the receiver then holds old + b, old - b, old * b: the f32
\* result of the operation, which is the exact one for the integer samples
\* here; no coordinate is skipped or applied twice.
C12_ElementWise ==
    (/\ arith.op \in {"add", "subtract", "multiply"}
     /\ arith.old.metadata.dimensions = operand.metadata.dimensions) =>
        /\ arith.ok
        /\ DOMAIN receiver.data = DOMAIN arith.old.data
        /\ \A c \in DOMAIN receiver.data :
              LET a   == arith.old.data[c]
                  b   == operand.data[c]
                  out == receiver.data[c]
              IN  /\ arith.op = "add" => out = FAdd(a, b)
                  /\ arith.op = "subtract" => out = FSub(a, b)
                  /\ arith.op = "multiply" => out = FMul(a, b)
                  /\ (IsInt(a) /\ IsInt(b)) =>
                        /\ IsInt(out)
                        /\ arith.op = "add" => IntOf(out) = IntOf(a) + IntOf(b)
                        /\ arith.op = "subtract" => IntOf(out) = IntOf(a) - IntOf(b)
                        /\ arith.op = "multiply" => IntOf(out) = IntOf(a) * IntOf(b)

\* (6, -3) minus (2, -4) is (4, 1), and times (2, -4) that is (8, -4)
C12_Witness ==
    /\ arith.op = "multiply" /\ arith.n = 2 /\ arith.ok
    /\ operand.data[<<0, 0>>] = FromInt(2) /\ operand.data[<<0, 1>>] = FromInt(-4)
    /\ arith.old.data[<<0, 0>>] = FromInt(4) /\ arith.old.data[<<0, 1>>] = FromInt(1)
    /\ receiver.data[<<0, 0>>] = FromInt(8) /\ receiver.data[<<0, 1>>] = FromInt(-4)

\* C13: on success of a combiner the output's metadata (dimensions, pixel
\* encoding, exposure, temperature, gain, filter, path, extra map) and frame
\* role are those of the first input, whatever the other inputs carry, and its
\* buffer is the one newly allocated in the call, of the first input's
\* dimensions.
C13_OutputInheritsFirst ==
    (Called /\ result.ok) =>
        /\ images # << >>
        /\ result.image.metadata = images[1].metadata
        /\ \A f \in DOMAIN images[1].metadata :
              result.image.metadata[f] = images[1].metadata[f]
        /\ result.image.frame_type = images[1].frame_type
        /\ result.allocs = 1
        /\ DOMAIN result.image.data =
              Coords(images[1].metadata.dimensions[1], images[1].metadata.dimensions[2])

\* the first input is the Dark frame of b.fits, a later one a Light frame of a.fits
C13_Witness ==
    /\ call.op = "sigma_clipping" /\ result.ok
    /\ Len(images) = 3
    /\ images[1].frame_type = "Dark" /\ images[1].metadata.pixel_type = "F32"
    /\ images[3].frame_type = "Light" /\ images[3].metadata.pixel_type = "U16"
    /\ result.image.frame_type = "Dark"
    /\ result.image.metadata.file_path = "Some(b.fits)"

C15_OnlyReceiverSamplesChange ==
    [][/\ operand' = operand
       /\ receiver'.metadata = receiver.metadata
       /\ receiver'.frame_type = receiver.frame_type
       /\ DOMAIN receiver'.data = DOMAIN receiver.data]_vars

\* two successful subtractions have changed the samples, 6 to 4 to 2
C15_Witness ==
    /\ arith.op = "subtract" /\ arith.n = 2 /\ arith.ok
    /\ arith.old.data[<<0, 0>>] = FromInt(4)
    /\ receiver.data[<<0, 0>>] = FromInt(2)
    /\ receiver.metadata = arith.old.metadata
    /\ receiver.metadata.pixel_type = "U16"
    /\ receiver.frame_type = "Light"

\* a list of one image repeated
Copies(imgs) == imgs # << >> /\ \A i \in DOMAIN imgs : imgs[i] = imgs[1]

\* an integer (in units of 2^-FixBits) whose odd part fits the significand
RECURSIVE OddPart(_)
OddPart(n) == IF n % 2 = 0 THEN OddPart(n \div 2) ELSE n
Representable(n) == n = 0 \/ BitLen(OddPart(Abs(n))) <= Precision

\* a sample that Fixed can express within the model checker's integers
Moderate(a) == IsFin(a) /\ (IsZero(a) \/ (a.e >= 0 - FixBits /\ a.e <= 4))

\* C16 as stated: average of N copies of an image X (N >= 1) returns, at every
\* coordinate, exactly X's sample.
C16_CopiesAverageExactly ==
    (call.op = "average" /\ Copies(images)) =>
        /\ result.ok
        /\ \A c \in PixelsOf(result) : Same(result.image.data[c], images[1].data[c])

\* C16 as amended: average of N copies of X returns X's sample at every
\* coordinate where the sample x is finite and each of x, 2x, ..., Nx is a
\* sample too (N = 1 always is).
C16_CopiesAverageWhenSumsExact ==
    (call.op = "average" /\ Copies(images)) =>
        /\ result.ok
        /\ PixelsOf(result) = DOMAIN images[1].data
        /\ \A c \in PixelsOf(result) :
              LET x == images[1].data[c]
                  N == Len(images)
              IN  /\ (N = 1 /\ IsFin(x)) => Same(result.image.data[c], x)
                  /\ (Moderate(x) /\ \A k \in 1 .. N : Representable(k * Fixed(x))) =>
                        Same(result.image.data[c], x)

\* three copies of an image with the samples 10 and 7
C16_Witness ==
    /\ call.op = "average" /\ result.ok
    /\ Len(images) = 3 /\ Copies(images)
    /\ images[1].data[<<0, 0>>] = FromInt(10)
    /\ \A k \in 1 .. 3 : Representable(k * Fixed(images[1].data[<<0, 0>>]))
    /\ result.image.data[<<0, 0>>] = images[1].data[<<0, 0>>]
    /\ result.image.data[<<0, 1>>] = FromInt(7)

\* C17: scale(factor) succeeds on every image and multiplies every sample by
\* factor; scale(1.0) leaves every sample as it was, scale(0.0) makes every
\* (finite) sample zero, and scale(-0.5) halves and negates it.
C17_Scale ==
    arith.op = "scale" =>
        /\ arith.ok
        /\ DOMAIN receiver.data = DOMAIN arith.old.data
        /\ \A c \in DOMAIN receiver.data :
              LET old == arith.old.data[c]
                  out == receiver.data[c]
              IN  /\ out = FMul(old, arith.factor)
                  /\ arith.factor = FromInt(1) => out = old
                  /\ arith.factor = Zero(0) => IsZero(out)
                  /\ (arith.factor = Lit(-1, -1) /\ Moderate(old) /\ Moderate(out)) =>
                        2 * Fixed(out) = 0 - Fixed(old)

\* (6, -3) scaled by 0.0 is (0.0, -0.0)
C17_Witness ==
    /\ arith.op = "scale" /\ arith.ok /\ arith.factor = Zero(0)
    /\ arith.old.data[<<0, 0>>] = FromInt(6) /\ arith.old.data[<<0, 1>>] = FromInt(-3)
    /\ receiver.data[<<0, 0>>] = Zero(0) /\ receiver.data[<<0, 1>>] = Zero(1)

\* the index of the image whose sample at c lies midway between the other two
Middle(imgs, c) ==
    CHOOSE i \in 1 .. 3 : \E j, k \in 1 .. 3 :
        /\ i # j /\ i # k /\ j # k
        /\ FLe(imgs[j].data[c], imgs[i].data[c]) /\ FLe(imgs[i].data[c], imgs[k].data[c])
        /\ Fixed(imgs[j].data[c]) + Fixed(imgs[k].data[c]) = 2 * Fixed(imgs[i].data[c])

\* the call of the example: average, median, or sigma_clipping(1.0, 5)
ExampleCall ==
    \/ call.op \in {"average", "median"}
    \/ call.op = "sigma_clipping" /\ call.sigma = FromInt(1) /\ call.iterations = 5

\* an integer sample of magnitude at most 2^(Precision - 3)
SmallInt(a) == IsInt(a) /\ Abs(IntOf(a)) <= 2 ^ (Precision - 3)

\* C18 as stated: for three images with m-d, m, m+d at one coordinate and a
\* common sample at the other, average, median and sigma_clipping(1.0, 5) all
\* give m at the former and the common sample at the latter.
C18_TripleGivesMiddle ==
    ExampleCall =>
        /\ result.ok
        /\ result.image.data[<<0, 0>>] = images[Middle(images, <<0, 0>>)].data[<<0, 0>>]
        /\ result.image.data[<<0, 1>>] = images[1].data[<<0, 1>>]

\* C18 as amended: median always does; average and sigma_clipping(1.0, 5) do
\* when the samples are integers of magnitude at most 2^(Precision - 3) (2^21 in
\* f32), and then the first iteration of sigma_clipping leaves the middle
\* sample alone.
C18_TripleOfSmallIntegers ==
    ExampleCall =>
        LET mid   == Middle(images, <<0, 0>>)
            m     == images[mid].data[<<0, 0>>]
            small == \A i \in 1 .. 3 : \A c \in DOMAIN images[i].data :
                        SmallInt(images[i].data[c])
        IN  /\ result.ok
            /\ (call.op = "median" \/ small) =>
                  /\ result.image.data[<<0, 0>>] = m
                  /\ result.image.data[<<0, 1>>] = images[1].data[<<0, 1>>]
            /\ (call.op = "sigma_clipping" /\ small) =>
                  /\ ClipOnce(SamplesAt(images, <<0, 0>>), call.sigma) = <<m>>
                  /\ Survivors(SamplesAt(images, <<0, 0>>), 1 .. 3, call.sigma, 1) = {mid}
                  /\ Survivors(SamplesAt(images, <<0, 1>>), 1 .. 3, call.sigma, 5) = 1 .. 3

\* the example: 30, 20, 10 at [0, 0] and 7 at [0, 1], five iterations asked
C18_Witness ==
    /\ call.op = "sigma_clipping" /\ call.sigma = FromInt(1) /\ call.iterations = 5
    /\ SamplesAt(images, <<0, 0>>) = <<FromInt(30), FromInt(20), FromInt(10)>>
    /\ SamplesAt(images, <<0, 1>>) = <<FromInt(7), FromInt(7), FromInt(7)>>
    /\ result.ok
    /\ result.image.data[<<0, 0>>] = FromInt(20)
    /\ result.image.data[<<0, 1>>] = FromInt(7)

\* the entries the row workers hold, each with the row of its worker
Pushed ==
    UNION {{<<y, i>> : i \in DOMAIN par.row_results[y]} : y \in DOMAIN par.row_results}

\* C19: in the row-parallel average, in whatever order the row workers take
\* their steps: every entry a worker produces is for a coordinate of its own
\* row, and no coordinate is produced twice (by one worker or by two); no step
\* changes an input image; no output coordinate is ever written twice, and
\* when the call returns every one has been written once, with the average of
\* the inputs' samples there, the image being the one that the row-by-row
\* computation gives.
C19_RowParallelAverage ==
    /\ []((par.pc \in {"rows", "fill"}) =>
            /\ \A w \in Pushed : par.row_results[w[1]][w[2]][1][1] = w[1]
            /\ \A v, w \in Pushed :
                  par.row_results[v[1]][v[2]][1] = par.row_results[w[1]][w[2]][1] => v = w
            /\ \A c \in DOMAIN par.writes :
                  /\ par.writes[c] <= 1
                  /\ par.writes[c] = 1 =>
                        par.result.data[c] = AveragePixel(SamplesAt(images, c)))
    /\ [](par.pc # "panicked")
    /\ []((par.pc = "done") =>
            /\ result = average(images)
            /\ result.ok => \A c \in DOMAIN par.writes : par.writes[c] = 1)
    /\ [][images' = images]_vars

\* the call has returned the average of two 3-row images
C19_Witness ==
    /\ par.pc = "done" /\ result.ok
    /\ Len(images) = 2
    /\ dimensions(images[1]) = <<2, 3>>
    /\ \A c \in Coords(2, 3) : par.writes[c] = 1
    /\ result.image.data[<<2, 1>>] = FromInt(11)

\* C20: an image made by FitsImage::new or returned by a combiner, and the
\* same image after every add, subtract, multiply, divide and scale called on
\* it, whether the call succeeded or failed, has as many samples in its
\* buffer as its metadata's width times height.
C20_DimensionsMatchBuffer ==
    dimensions(receiver)[1] * dimensions(receiver)[2] = Cardinality(DOMAIN receiver.data)

\* a combiner's output (a Dark frame of two samples), scaled by -1/2, after
\* an add that failed
C20_Witness ==
    /\ arith.n = 2 /\ arith.op = "add" /\ ~arith.ok
    /\ receiver.frame_type = "Dark"
    /\ dimensions(receiver) = <<2, 1>>
    /\ Cardinality(DOMAIN receiver.data) = 2
    /\ receiver.data[<<0, 0>>] = Lit(-1, -1)

\* the invocation has returned, with a result or with an error
Returned == run.pc \in {"done", "failed"}

\* some step of the invocation can be taken: the condition of one of the
\* steps holds (what a step assigns is always defined)
CanStep ==
    \/ NoneYet
    \/ AtPixel \/ AtCollect \/ AtRound \/ AtStore \/ AtCombinerReturn
    \/ AtCell \/ AtArithReturn
    \/ AtStatValue \/ AtStatFinish

\* an upper bound on the steps left: per coordinate of sigma_clipping one
\* step to collect, at most `iterations` rounds and one step to store
StepsLeft(r) ==
    IF r.pc = "idle" THEN 4 + 4 * (MaxRounds + 3)
    ELSE IF r.pc = "pixel" THEN 1 + Len(r.todo) * (MaxRounds + 3)
    ELSE IF r.pc = "clip" THEN 2 + Len(r.todo) * (MaxRounds + 3) + (r.iterations - r.rounds)
    ELSE IF r.pc = "cell" THEN 1 + Len(r.todo)
    ELSE IF r.pc = "stat" THEN 1 + Len(r.values)
    ELSE 0

\* C21: every invocation of average, median, sigma_clipping, of the
\* statistics and of add, subtract, multiply, divide and scale returns (until
\* it has returned a step can be taken, and every step lowers a bound on the
\* number of steps left, which is never negative); when
\* it returns an error it has done no step of its computation and has written
\* nothing; when it returns a result every coordinate has been processed and
\* the result is the one the operation defines; and the rejection loop of
\* sigma_clipping never runs more than `iterations` rounds at a coordinate.
C21_InvocationsTerminate ==
    /\ [](Returned \/ CanStep)
    /\ [](StepsLeft(run) >= 0)
    /\ [][StepsLeft(run') < StepsLeft(run)]_vars
    /\ [](run.pc = "failed" =>
            /\ run.steps = 0
            /\ receiver = FrameOf(2, 1, <<FromInt(6), FromInt(-3)>>)
            /\ run.op \in {"average", "median", "sigma_clipping"} => ~result.ok)
    /\ [](run.rounds <= run.iterations)
    /\ [](run.pc = "done" =>
            /\ run.todo = << >>
            /\ run.op \in {"average", "median", "sigma_clipping"} =>
                  result = Combined(run.op, images, run.sigma, run.iterations)
            /\ run.op = "calculate_statistics" =>
                  /\ statistics.min = run.min /\ statistics.max = run.max
                  /\ run.steps = Cardinality(DOMAIN receiver.data)
            /\ run.op \in {"add", "subtract", "multiply", "divide", "scale"} =>
                  /\ arith.ok
                  /\ run.steps = Cardinality(DOMAIN receiver.data))

\* a sigma_clipping call of two rounds on four images has returned, having
\* rejected a sample
C21_Witness ==
    /\ run.pc = "done" /\ run.op = "sigma_clipping"
    /\ run.iterations = 2 /\ run.rounds = 2
    /\ Len(images) = 4 /\ Len(run.values) = 3
    /\ result.ok

\* a sample as an integer in units of 2^-6, when it is one of magnitude at
\* most 2^8
Sixtyfourths(a) == Fixed(a) \div (2 ^ (FixBits - 6))
Coarse(a) ==
    /\ Moderate(a)
    /\ Fixed(a) % (2 ^ (FixBits - 6)) = 0
    /\ Abs(Sixtyfourths(a)) <= 2 ^ 14

\* the mean, the deviations, their squares and the variance of the values come
\* out exactly: every intermediate result of lines 160-162 is a sample
ExactMoments(values) ==
    LET N    == Len(values)
        V    == [i \in 1 .. N |-> Sixtyfourths(values[i])]
        S    == FixedTotal(V, N)
        M    == S \div N
        sq   == [i \in 1 .. N |-> (V[i] - M) * (V[i] - M)]
    IN  /\ \A i \in 1 .. N : Coarse(values[i])
        /\ \A k \in 1 .. N : Representable(FixedTotal(V, k))
        /\ S % N = 0 /\ Representable(M)
        /\ \A i \in 1 .. N : Representable(V[i] - M) /\ Representable(sq[i])
        /\ \A k \in 1 .. N : Representable(FixedTotal(sq, k))
        /\ FixedTotal(sq, N) % N = 0 /\ Representable(FixedTotal(sq, N) \div N)

\* a rejection round has just been made with a sigma of at least 1
RoundMade == run.pc = "clip" /\ run.rounds >= 1 /\ FGe(run.sigma, FromInt(1))

\* C22 as stated: with sigma >= 1 and finite samples every rejection round
\* keeps at least one sample, so the 0.0 fallback is never taken.
C22_RoundKeepsASample ==
    /\ RoundMade => run.values # << >>
    /\ (run.pc = "done" /\ run.op = "sigma_clipping" /\ FGe(run.sigma, FromInt(1))) =>
          run.values # << >>

\* C22 as amended: with sigma >= 1, a rejection round keeps at least one
\* sample, one nearest to the mean, whenever the mean and the variance of
\* the samples it starts from are computed exactly.
C22_ExactRoundKeepsASample ==
    (RoundMade /\ ExactMoments(run.before)) =>
        /\ run.values # << >>
        /\ \E i \in DOMAIN run.before :
              /\ \A j \in DOMAIN run.before :
                    Abs(Fixed(run.before[i]) * Len(run.before)
                            - FixedSum(run.before, Len(run.before)))
                        <= Abs(Fixed(run.before[j]) * Len(run.before)
                                - FixedSum(run.before, Len(run.before)))
              /\ \E k \in DOMAIN run.values : run.values[k] = run.before[i]

\* of 10, 10, 10, 30 a round with sigma 1 has kept the three 10s
C22_Witness ==
    /\ RoundMade /\ run.sigma = FromInt(1) /\ run.rounds = 1
    /\ run.before = <<FromInt(10), FromInt(10), FromInt(10), FromInt(30)>>
    /\ ExactMoments(run.before)
    /\ run.values = <<FromInt(10), FromInt(10), FromInt(10)>>

\* C23: on a list of one or two images sigma_clipping has, for every sigma
\* (zero and negative ones too) and every number of iterations, the outcome
\* of average: the same samples, metadata and frame type, or the same error.
C23_UpToTwoImagesIsAverage ==
    (call.op = "sigma_clipping" /\ Len(images) \in {1, 2}) =>
        SameOutcome(result, average(images))

\* two images with the samples 10 and 30, sigma -1, two iterations asked:
\* a rejection round would have discarded both samples
C23_Witness ==
    /\ call.op = "sigma_clipping" /\ call.sigma = FromInt(-1) /\ call.iterations = 2
    /\ Len(images) = 2 /\ result.ok
    /\ images[1].data[<<0, 0>>] = FromInt(10) /\ images[2].data[<<0, 0>>] = FromInt(30)
    /\ result.image.data[<<0, 0>>] = FromInt(20)
    /\ ClipOnce(SamplesAt(images, <<0, 0>>), call.sigma) = << >>

\* C24: at every coordinate the samples left after a rejection round are
\* among those it started from, in their order; a round that follows one that
\* discarded nothing discards nothing; and a call on N images with
\* iterations >= N returns what the call with iterations = N returns.
C24_SurvivorsOnlyShrink ==
    /\ [](run.pc = "clip" =>
            \E S \in SUBSET DOMAIN run.before : Pick(run.before, S) = run.values)
    /\ [][(AtRound /\ run.rounds >= 1 /\ run.values = run.before /\ run'.pc = "clip")
            => run'.values = run.values]_vars
    /\ []((run.pc = "done" /\ run.op = "sigma_clipping"
              /\ run.iterations >= Len(images)) =>
            result = sigma_clipping(images, run.sigma, Len(images)))

\* 10, 10, 10, 30 with sigma 1 and four iterations asked: 30 was discarded in
\* the first round, nothing after it
C24_Witness ==
    /\ run.pc = "done" /\ run.op = "sigma_clipping"
    /\ run.sigma = FromInt(1) /\ run.iterations = 4 /\ run.rounds = 4
    /\ SamplesAt(images, <<0, 0>>) = <<FromInt(10), FromInt(10), FromInt(10), FromInt(30)>>
    /\ result.image.data[<<0, 0>>] = FromInt(10)
    /\ sigma_clipping(images, run.sigma, 0).image.data[<<0, 0>>] = FromInt(15)

\* out lies between the least and the greatest of the values, inclusive
InRange(out, values) ==
    /\ \E i \in DOMAIN values : FLe(values[i], out)
    /\ \E j \in DOMAIN values : FLe(out, values[j])

\* the left-to-right sum of the values is exact: every partial sum is a sample
ExactSum(values) ==
    /\ \A i \in DOMAIN values : Moderate(values[i])
    /\ \A k \in DOMAIN values : Representable(FixedSum(values, k))

\* the sum of the two middle values of an even count is finite
MiddleSumFinite(values) ==
    \/ Len(values) % 2 = 1
    \/ IsFin(FAdd(Sort(values)[Len(values) \div 2], Sort(values)[Len(values) \div 2 + 1]))

\* C25 as stated: at every coordinate the output of average and of median
\* lies between the least and the greatest input sample there; that of
\* sigma_clipping does too, or is the 0.0 of the fallback.
C25_OutputWithinInputRange ==
    (Called /\ result.ok) =>
        \A c \in PixelsOf(result) :
            LET values == SamplesAt(images, c)
                out    == result.image.data[c]
            IN  IF call.op = "sigma_clipping"
                THEN \/ InRange(out, values)
                     \/ /\ ClipLoop(values, call.sigma, call.iterations) = << >>
                        /\ out = Zero(0)
                ELSE InRange(out, values)

\* C25 as amended: the output of average lies in that range when the sum of
\* the samples is exact; that of median when the sum of the two middle
\* samples is finite (always for an odd count); that of sigma_clipping is the
\* 0.0 of the fallback when every sample was discarded, and lies in the range
\* of the surviving samples when their sum is exact.
C25_OutputWithinRangeWhenSumExact ==
    (Called /\ result.ok) =>
        \A c \in PixelsOf(result) :
            LET values == SamplesAt(images, c)
                left   == ClipLoop(values, call.sigma, call.iterations)
                out    == result.image.data[c]
            IN  /\ (call.op = "average" /\ ExactSum(values)) => InRange(out, values)
                /\ (call.op = "median" /\ MiddleSumFinite(values)) => InRange(out, values)
                /\ (call.op = "sigma_clipping" /\ left = << >>) => out = Zero(0)
                /\ (call.op = "sigma_clipping" /\ left # << >> /\ ExactSum(left)) =>
                      InRange(out, left) /\ InRange(out, values)

\* the average of 10, 30 and -3 is 37/3, rounded, between -3 and 30
C25_Witness ==
    /\ call.op = "average" /\ result.ok
    /\ SamplesAt(images, <<0, 0>>) = <<FromInt(10), FromInt(30), FromInt(-3)>>
    /\ ExactSum(SamplesAt(images, <<0, 0>>))
    /\ FLt(FromInt(12), result.image.data[<<0, 0>>])
    /\ FLt(result.image.data[<<0, 0>>], FromInt(13))

\* the orderings of n things, and a list put in one of them
Perms(n) == {p \in [1 .. n -> 1 .. n] : \A i, j \in 1 .. n : p[i] = p[j] => i = j}
Permuted(imgs, p) == [i \in DOMAIN imgs |-> imgs[p[i]]]

\* what the call made would have returned on the list imgs
SameCall(imgs) ==
    IF call.op = "average" THEN average(imgs)
    ELSE IF call.op = "median" THEN median(imgs)
    ELSE sigma_clipping(imgs, call.sigma, call.iterations)

\* every round of the rejection loop on the values computes its mean and its
\* variance exactly, and the sum of the samples left at the end is exact
RECURSIVE ExactRounds(_, _, _)
ExactRounds(values, sigma, iterations) ==
    IF iterations = 0 \/ Len(values) <= 2 THEN values = << >> \/ ExactSum(values)
    ELSE /\ ExactMoments(values)
         /\ ExactRounds(ClipOnce(values, sigma), sigma, iterations - 1)

\* C26 as stated: average, median and sigma_clipping give the same sample at
\* every coordinate for every ordering of the same images; the metadata and
\* the frame type are those of the image that is first.
C26_OrderDoesNotMatter ==
    (Called /\ result.ok) =>
        \A p \in Perms(Len(images)) :
            LET other == SameCall(Permuted(images, p))
            IN  /\ other.ok
                /\ other.image.metadata = images[p[1]].metadata
                /\ other.image.frame_type = images[p[1]].frame_type
                /\ \A c \in PixelsOf(result) :
                      Same(other.image.data[c], result.image.data[c])

\* C26 as amended: median does; average does when the sum of the samples is
\* exact in both orders; sigma_clipping does when in both orders every round
\* computes its mean and variance exactly and the final sum is exact.
C26_OrderDoesNotMatterWhenExact ==
    (Called /\ result.ok) =>
        \A p \in Perms(Len(images)) :
            LET other == SameCall(Permuted(images, p))
            IN  /\ other.ok
                /\ other.image.metadata = images[p[1]].metadata
                /\ other.image.frame_type = images[p[1]].frame_type
                /\ \A c \in PixelsOf(result) :
                      LET values == SamplesAt(images, c)
                          moved  == SamplesAt(Permuted(images, p), c)
                          exact  ==
                              IF call.op = "median" THEN TRUE
                              ELSE IF call.op = "average"
                              THEN ExactSum(values) /\ ExactSum(moved)
                              ELSE /\ ExactRounds(values, call.sigma, call.iterations)
                                   /\ ExactRounds(moved, call.sigma, call.iterations)
                      IN  exact => Same(other.image.data[c], result.image.data[c])

\* sigma_clipping with sigma 1 on 3, 0, 0: the round is exact and discards 3,
\* as it does on 0, 0, 3; the Dark frame's metadata would come first elsewhere
C26_Witness ==
    /\ call.op = "sigma_clipping" /\ call.sigma = FromInt(1) /\ call.iterations = 1
    /\ result.ok
    /\ SamplesAt(images, <<0, 0>>) = <<FromInt(3), Zero(0), Zero(0)>>
    /\ ExactRounds(SamplesAt(images, <<0, 0>>), call.sigma, call.iterations)
    /\ result.image.data[<<0, 0>>] = Zero(0)

\* C11: the statistics of an empty buffer (a zero-area image) are 0.0 in every
\* field: min, max, mean, median and std_dev.
C11_EmptyStatisticsAreZero ==
    (statistics.op = "calculate_statistics" /\ DOMAIN receiver.data = {}) =>
        /\ statistics.min = Zero(0)
        /\ statistics.max = Zero(0)
        /\ statistics.mean = Zero(0)
        /\ statistics.median = Zero(0)
        /\ statistics.std_dev = Zero(0)

\* what calculate_statistics returns for an empty buffer: only the median is 0.0
C11_Witness ==
    /\ statistics.op = "calculate_statistics"
    /\ DOMAIN receiver.data = {}
    /\ statistics.min = F32_MAX /\ statistics.max = F32_MIN
    /\ IsNaN(statistics.mean) /\ IsNaN(statistics.std_dev)
    /\ statistics.median = Zero(0)

\* C27: the Registration, Processing and Results steps are entered only when
\* the Light frames directory and the output directory are both selected:
\* every step that leaves FolderSelection is taken with the two selected, and
\* in every state of a later step they are selected.
C27_LaterStepsNeedDirectories ==
    /\ [](app.current_step # "FolderSelection" => can_proceed(app))
    /\ [][app.current_step = "FolderSelection" /\ app'.current_step # "FolderSelection"
              => can_proceed(app)]_vars

\* C28: for every frame type the selected frame index is None or an index
\* into the type's current list of frames.
C28_SelectedIndexValid ==
    \A t \in GuiTypes : ValidSelection(view, t)

\* C29: after every "Continue to Registration", the registration view holds
\* for every frame type exactly the paths of the type's frame set, in order;
\* an empty frame set leaves no frame of its type in the view.
C29_RegistrationHoldsScannedFrames ==
    [][ContinueToRegistration
           => \A i \in 1 .. MaxTypes :
                  PathsIn(view', app.frame_sets[i].frame_type)
                      = app.frame_sets[i].file_paths]_vars

\* C30: the preview cache is consistent. A frame whose preview_stretch is
\* Some(m) holds a preview made with m; generate_preview with the method of
\* the cached preview returns the frame and the Context as they are;
\* ensure_preview and regenerate_preview on a valid index leave the frame's
\* preview_stretch at the view's selected stretch, whatever the stretch
\* changes and tab switches before; and so does every pass of the view for
\* the frame it shows.
C30_PreviewCacheConsistent ==
    /\ [](\A p \in FramesOf(view) :
             LET frame == FrameAt(view, p[1], p[2])
             IN  /\ frame.preview_stretch # None
                     => /\ frame.preview_data # None
                        /\ frame.preview_data[1].stretch = frame.preview_stretch[1]
                        /\ generate_preview(frame, textures, frame.preview_stretch[1])
                               = [frame |-> frame, loaded |-> textures]
                 /\ frame.preview_data # None => frame.preview_stretch # None
                 /\ \A made \in {ensure_preview(view, textures, p[1], p[2]),
                                  regenerate_preview(view, textures, p[1], p[2])} :
                        LET after == FrameAt(made.view, p[1], p[2])
                        IN  /\ after.preview_stretch = Some(view.selected_stretch)
                            /\ after.preview_data # None
                            /\ after.preview_data[1].stretch = view.selected_stretch)
    /\ [][Repaint /\ PreviewShown(view)
              => LET shown == FrameAt(view', view.active_tab,
                                      view.selected_frame_indices[view.active_tab][1])
                 IN  /\ shown.preview_stretch = Some(view'.selected_stretch)
                     /\ (FrameAt(view, view.active_tab,
                                 view.selected_frame_indices[view.active_tab][1])
                             .preview_stretch = Some(view.selected_stretch)
                            => textures' = textures)]_vars

\* on the Dark tab, after a change of stretch: the preview of the frame shown
\* was made again, with the new method, as the second texture of the Context
C30_Witness ==
    /\ view.active_tab = "Dark"
    /\ PreviewShown(view)
    /\ view.selected_stretch = "AutoStretch"
    /\ FrameAt(view, "Dark", 0).preview_stretch = Some("AutoStretch")
    /\ FrameAt(view, "Dark", 0).preview_data = Some([texture |-> 2, stretch |-> "AutoStretch"])

====
